---- MODULE Spec2Model ----
(***************************************************************************)
(* Model of the conversational core of Buch-Bot (telegram_bot):            *)
(*   - utils/debounce.py        DebounceManager (per-chat debounce timers) *)
(*   - services/state.py        AppState (clarification waits)             *)
(*   - handlers/messages.py     text and attachment handlers               *)
(*   - handlers/callbacks.py    clarify callback                           *)
(*   - core/scheduler.py        TaskScheduler.check_task_updates (poller)  *)
(*   - services/ai_service.py   the adapters a text turn calls             *)
(*   - services/chat_history_service.py   ChatHistoryService               *)
(* Coroutines are cut at their await points: everything between two awaits *)
(* is one atomic step of the asyncio event loop.                            *)
(***************************************************************************)
EXTENDS Integers, Sequences, FiniteSets, TLC

(***************************************************************************)
(* Bounds                                                                  *)
(***************************************************************************)
MaxTasks == 3

ChatIds == {1, 2}
Keys == {1}
Texts == {"a", "b"}
\* the inbound messages of the router are told apart by their arrival number
MsgTexts == <<"a", "b", "c", "d">>
TaskIds == 1..MaxTasks
NoTask == 0

MaxHandlers == 2
MaxMsgs == 2
MaxComments == 2
MaxDeletes == 1
MaxTurns == 2
MaxRows == 3
MaxClock == 2
HistoryLimit == 2
MaxTicks == 4
MaxCancels == 1
MaxOps == 4
CacheMaxSize == 2
CacheKeys == {1, 2, 3}
MaxDue == 2
TtlTicks == 2

Tickets == {1, 2}
StatusOpen == 2
StatusDone == 5
NoStatus == 0
CommentKinds == {"text", "files", "both", "bot"}

Slots == 1..MaxHandlers
TicketIds == {1, 2}
None == 0
NoQuestion == <<>>
Categories == {"chitchat", "non_standard_faq", "expert_question", "bitrix_task",
               "general_question", "mixed_question_and_task"}
Playbooks == {"none", "reply", "reply_task", "raise"}

VARIABLES
    tasks,        \* DebounceManager.tasks: chat_id -> asyncio.Task (NoTask = key absent)
    taskState,    \* state of each asyncio.Task created by schedule
    taskKey,      \* chat_id argument of the task
    taskArg,      \* **kwargs captured by the task (the notified text)
    nextTask,     \* number of tasks created so far
    taskBurst,    \* history: index of the burst the task's schedule call belongs to
    lastTask,     \* history: the task created by the latest schedule call of the key
    bursts,       \* history: per key, the bursts of notified texts
    fired         \* history: callback invocations, in order

dvars == <<tasks, taskState, taskKey, taskArg, nextTask, taskBurst, lastTask, bursts, fired>>

VARIABLES
    pending_clarify,  \* AppState.pending_clarify: key -> task id (None = key absent)
    pending_pre,      \* AppState.pending_pre_task_clarify: key -> original question (NoQuestion = absent)
    hs,               \* the running handler coroutines, one record per slot
    msgCount,         \* number of inbound messages taken so far
    classifyLog,      \* history: per key, the questions passed to ai_service.classify_question
    commentLog,       \* history: per key, the comments the handlers posted with bitrix_service.add_comment
    popLog,           \* history: per key, the pops of pending_clarify that returned a task id
    arrivals,         \* history: per key, the non-staff texts that arrived, in order
    waitNo,           \* history: per key, number of successful set_pending_clarify calls
    lastClarify       \* history: the latest clarify callback: its key, task id and what set_pending_clarify returned

rvars == <<pending_clarify, pending_pre, hs, msgCount, classifyLog, commentLog, popLog,
           arrivals, waitNo, lastClarify>>

VARIABLES
    extComments,   \* ticketing system: per ticket, its comments in chronological order
    extStatus,     \* ticketing system: per ticket, its status code
    nextId,        \* ticketing system: the last comment id handed out
    deletes,       \* number of comments deleted in the ticketing system so far
    link,          \* BitrixTaskLink rows of each ticket: the row the job reads and writes (exists =
                   \* FALSE: no row), dup: a second row with the task_id, awaited: the handler's row is to come
    clientKnown,   \* a Client row exists for the ticket's TG user
    ppc,           \* check_task_updates: position of the running job
    updates,       \* check_task_updates: the update items not yet visited
    cur,           \* check_task_updates: loop variables of the item being visited
    attempts,      \* history: the comment deliveries attempted in the current cycle
    retry,         \* history: per ticket, the comment whose delivery failed and was not attempted since
    relayedMax,    \* history (SpecRelay): per ticket, the latest comment (highest id) delivered and committed
    tasklist,      \* get_task_updates: the tasks of the list request whose comments are not requested yet
    fetched        \* history: the list get_task_updates returned to the running job

pvars == <<extComments, extStatus, nextId, deletes, link, clientKnown, ppc, updates, cur,
           attempts, retry, relayedMax, tasklist, fetched>>

VARIABLES
    turn,          \* per handler slot, the text or attachment turn being handled
    turnNo,        \* number of turns started so far
    preAge         \* history: per key, ticks since the latest set of the pre-ticket wait (NoAge = none pending)

tvars == <<turn, turnNo, preAge>>

VARIABLES
    rows,          \* the chat_messages table: the ChatMessage rows in insertion order
    clock,         \* the value datetime.utcnow() returns, as stored by the DateTime column
    recent         \* history: the latest get_recent_messages call: its chat, what it returned, what had been appended

hvars == <<rows, clock, recent>>

VARIABLES
    cronTick,      \* the number of run times of the trigger of job check_updates that have come due
    jobRuns,       \* the executions of check_task_updates the scheduler submitted, in order
    skippedTicks   \* history: the run times for which no execution was started

cvars == <<cronTick, jobRuns, skippedTicks>>

VARIABLES
    cancels        \* history: the cancel-clarify presses handled so far, with what each one did

kvars == <<cancels>>

VARIABLES
    cache,         \* pending_pre_task_clarify over several keys: the entries [key, value, age], least recently set first
    ideal,         \* history: per key, the question set last and neither popped nor expired since, with its age
    cacheOp        \* history: the latest set or pop on the cache: its number, key and return value

xvars == <<cache, ideal, cacheOp>>

vars == <<dvars, rvars, pvars, tvars, hvars, cvars, kvars, xvars>>

(***************************************************************************)
(* Text helpers.  A text is a sequence of lines; joining texts with a      *)
(* newline separator is the concatenation of their lines.                  *)
(***************************************************************************)
InRangeOf(sq) == {sq[i] : i \in DOMAIN sq}

RECURSIVE JoinLines(_)
JoinLines(ts) == IF ts = <<>> THEN <<>> ELSE Head(ts) \o JoinLines(Tail(ts))

(***************************************************************************)
(* utils/debounce.py                                                       *)
(***************************************************************************)
\* asyncio.Task.done(): the coroutine has returned, raised or been cancelled
TaskDone(t) == taskState[t] \in {"done", "cancelled", "failed"}

\* the timer of the task has not fired yet (asyncio.sleep not yet returned into the coroutine)
TaskPending(t) == taskState[t] \in {"sleeping", "expired"}

DebounceVarsInit ==
    /\ tasks = [k \in ChatIds |-> NoTask]
    /\ taskState = [t \in TaskIds |-> "unused"]
    /\ taskKey = [t \in TaskIds |-> 0]
    /\ taskArg = [t \in TaskIds |-> <<>>]
    /\ nextTask = 0
    /\ taskBurst = [t \in TaskIds |-> 0]
    /\ lastTask = [k \in ChatIds |-> NoTask]
    /\ bursts = [k \in ChatIds |-> <<>>]
    /\ fired = <<>>

\* DebounceManager.schedule(chat_id, callback, delay, text=txt)
Schedule(k, txt) ==
    /\ nextTask < MaxTasks
    /\ LET new == nextTask + 1
           old == tasks[k]
           \* a burst continues while the timer started by the previous call has not fired
           cont == lastTask[k] # NoTask /\ TaskPending(lastTask[k])
           bs == IF cont
                 THEN [bursts[k] EXCEPT ![Len(bursts[k])] = Append(@, txt)]
                 ELSE Append(bursts[k], <<txt>>)
       IN /\ taskState' = [t \in TaskIds |->
                             IF t = new THEN "sleeping"
                             ELSE IF t = old /\ ~TaskDone(t) THEN "cancelled"
                             ELSE taskState[t]]
          /\ tasks' = [tasks EXCEPT ![k] = new]
          /\ taskKey' = [taskKey EXCEPT ![new] = k]
          /\ taskArg' = [taskArg EXCEPT ![new] = <<txt>>]
          /\ nextTask' = new
          /\ bursts' = [bursts EXCEPT ![k] = bs]
          /\ taskBurst' = [taskBurst EXCEPT ![new] = Len(bs)]
          /\ lastTask' = [lastTask EXCEPT ![k] = new]
    /\ UNCHANGED <<fired, rvars, pvars, tvars, hvars, cvars, kvars, xvars>>

\* asyncio.sleep(delay) elapses: the task becomes ready to resume
TimerExpire(t) ==
    /\ taskState[t] = "sleeping"
    /\ taskState' = [taskState EXCEPT ![t] = "expired"]
    /\ UNCHANGED <<tasks, taskKey, taskArg, nextTask, taskBurst, lastTask, bursts, fired, rvars, pvars, tvars, hvars, cvars, kvars, xvars>>

\* _wait_and_execute entering the callback with its key still in the dict
WaitAndExecuteKeepKey(t) ==
    /\ taskState[t] = "expired"
    /\ taskState' = [taskState EXCEPT ![t] = "running"]
    /\ fired' = Append(fired, [key |-> taskKey[t], text |-> taskArg[t],
                               task |-> t, burst |-> taskBurst[t]])
    /\ UNCHANGED <<tasks, taskKey, taskArg, nextTask, taskBurst, lastTask, bursts, rvars, pvars, tvars, hvars, cvars, kvars, xvars>>

\* _wait_and_execute resumes after the sleep: deletes the key and enters the callback
WaitAndExecute(t) ==
    /\ taskState[t] = "expired"
    /\ taskState' = [taskState EXCEPT ![t] = "running"]
    /\ tasks' = [tasks EXCEPT ![taskKey[t]] = NoTask]
    /\ fired' = Append(fired, [key |-> taskKey[t], text |-> taskArg[t],
                               task |-> t, burst |-> taskBurst[t]])
    /\ UNCHANGED <<taskKey, taskArg, nextTask, taskBurst, lastTask, bursts, rvars, pvars, tvars, hvars, cvars, kvars, xvars>>

\* the callback returns normally
CallbackReturn(t) ==
    /\ taskState[t] = "running"
    /\ taskState' = [taskState EXCEPT ![t] = "done"]
    /\ UNCHANGED <<tasks, taskKey, taskArg, nextTask, taskBurst, lastTask, bursts, fired, rvars, pvars, tvars, hvars, cvars, kvars, xvars>>

\* an except branch that runs the callback of the task again
CallbackRaiseRetry(t) ==
    /\ taskState[t] = "running"
    /\ taskState' = [taskState EXCEPT ![t] = "expired"]
    /\ tasks' = [tasks EXCEPT ![taskKey[t]] = NoTask]
    /\ UNCHANGED <<taskKey, taskArg, nextTask, taskBurst, lastTask, bursts, fired, rvars, pvars, tvars, hvars, cvars, kvars, xvars>>

\* the callback raises: except Exception -> log, delete the key if present
CallbackRaise(t) ==
    /\ taskState[t] = "running"
    /\ taskState' = [taskState EXCEPT ![t] = "failed"]
    /\ tasks' = [tasks EXCEPT ![taskKey[t]] = NoTask]
    /\ UNCHANGED <<taskKey, taskArg, nextTask, taskBurst, lastTask, bursts, fired, rvars, pvars, tvars, hvars, cvars, kvars, xvars>>

DebounceNext ==
    \/ \E k \in ChatIds, txt \in Texts : Schedule(k, txt)
    \/ \E t \in TaskIds : TimerExpire(t)
    \/ \E t \in TaskIds : WaitAndExecute(t)
    \/ \E t \in TaskIds : CallbackReturn(t)
    \/ \E t \in TaskIds : CallbackRaise(t)

(***************************************************************************)
(* services/state.py                                                       *)
(***************************************************************************)
\* set_pending_clarify without the membership test: the new task id overwrites the stored one
set_pending_clarify_overwrite(pc, key, task_id) ==
    [ret |-> pc[key], state |-> [pc EXCEPT ![key] = task_id]]

\* AppState.set_pending_clarify: [ret, state] for the dict pc
set_pending_clarify(pc, key, task_id) ==
    IF pc[key] # None
    THEN [ret |-> pc[key], state |-> pc]
    ELSE [ret |-> None, state |-> [pc EXCEPT ![key] = task_id]]

\* pop_pending_clarify as a read that leaves the entry in place
pop_pending_clarify_noclear(pc, key) ==
    [ret |-> pc[key], state |-> pc]

\* AppState.pop_pending_clarify: dict.pop(key, None)
pop_pending_clarify(pc, key) ==
    [ret |-> pc[key], state |-> [pc EXCEPT ![key] = None]]

\* AppState.get_pending_clarify: dict.get(key)
get_pending_clarify(pc, key) == pc[key]

\* set_pending_pre_task_clarification that stores nothing
set_pending_pre_task_clarification_drop(pp, key, question) == pp

\* AppState.set_pending_pre_task_clarification: cache[key] = original_question
set_pending_pre_task_clarification(pp, key, question) ==
    [pp EXCEPT ![key] = question]

\* AppState.pop_pending_pre_task_clarification: cache.pop(key, None)
pop_pending_pre_task_clarification(pp, key) ==
    [ret |-> pp[key], state |-> [pp EXCEPT ![key] = NoQuestion]]

(***************************************************************************)
(* services/state.py: pending_pre_task_clarify = TTLCache(maxsize=1024,    *)
(* ttl=900) over several keys. CacheMaxSize stands for the 1024 entries,   *)
(* TtlTicks for the 900 seconds                                            *)
(***************************************************************************)
NoEntry == [value |-> NoQuestion, age |-> 0]

NoOp == [no |-> 0, op |-> "none", key |-> 0, ret |-> NoQuestion]

CacheVarsInit ==
    /\ cache = <<>>
    /\ ideal = [k \in CacheKeys |-> NoEntry]
    /\ cacheOp = NoOp

\* TTLCache.expire: the entries whose time to live has passed are removed
ttl_expire(c) == SelectSeq(c, LAMBDA e : e.age < TtlTicks)

\* the entries of c without the one of key
ttl_without(c, key) == SelectSeq(c, LAMBDA e : e.key # key)

\* key in cache / cache[key]: the value of the unexpired entry of key
ttl_get(c, key) ==
    LET live == SelectSeq(ttl_expire(c), LAMBDA e : e.key = key)
    IN IF live = <<>> THEN NoQuestion ELSE live[1].value

\* TTLCache.__setitem__: expire, then for a new key popitem (the least recently
\* set entry) while the cache is full; the entry of the key moves to the end with
\* a fresh time to live
ttl_setitem(c, maxsize, key, value) ==
    LET e == ttl_expire(c)
        rest == ttl_without(e, key)
        evict == IF Len(rest) = Len(e) /\ Len(e) >= maxsize THEN Len(e) - maxsize + 1 ELSE 0
    IN SubSeq(rest, evict + 1, Len(rest)) \o <<[key |-> key, value |-> value, age |-> 0]>>

\* TTLCache.pop(key, None): the value of the unexpired entry, which is deleted
ttl_pop(c, key) == [ret |-> ttl_get(c, key), state |-> ttl_without(c, key)]

\* AppState.set_pending_pre_task_clarification for one of several keys
CacheSet(k, q) ==
    /\ cacheOp.no < MaxOps
    /\ cache' = ttl_setitem(cache, CacheMaxSize, k, q)
    /\ ideal' = [ideal EXCEPT ![k] = [value |-> q, age |-> 0]]
    /\ cacheOp' = [no |-> cacheOp.no + 1, op |-> "set", key |-> k, ret |-> NoQuestion]
    /\ UNCHANGED <<dvars, rvars, pvars, tvars, hvars, cvars, kvars>>

\* AppState.pop_pending_pre_task_clarification for one of several keys
CachePop(k) ==
    /\ cacheOp.no < MaxOps
    /\ LET p == ttl_pop(cache, k) IN
       /\ cache' = p.state
       /\ cacheOp' = [no |-> cacheOp.no + 1, op |-> "pop", key |-> k, ret |-> p.ret]
    /\ ideal' = [ideal EXCEPT ![k] = NoEntry]
    /\ UNCHANGED <<dvars, rvars, pvars, tvars, hvars, cvars, kvars>>

\* the timer of the cache advances by one tick
CacheTick ==
    /\ \E i \in DOMAIN cache : cache[i].age < TtlTicks
    /\ cache' = [i \in DOMAIN cache |->
                    [cache[i] EXCEPT !.age = IF @ < TtlTicks THEN @ + 1 ELSE @]]
    /\ ideal' = [k \in CacheKeys |->
                    IF ideal[k].value = NoQuestion THEN NoEntry
                    ELSE IF ideal[k].age + 1 >= TtlTicks THEN NoEntry
                    ELSE [ideal[k] EXCEPT !.age = @ + 1]]
    /\ UNCHANGED <<cacheOp, dvars, rvars, pvars, tvars, hvars, cvars, kvars>>

CacheNext ==
    \/ \E k \in CacheKeys, txt \in Texts : CacheSet(k, <<txt>>)
    \/ \E k \in CacheKeys : CachePop(k)
    \/ CacheTick

(***************************************************************************)
(* handlers/messages.py: the routing of one text turn                      *)
(***************************************************************************)
\* the effects and the adapter calls of one turn; a call that was not made is "skipped"
ZeroRes == [replies |-> 0, botHist |-> 0, created |-> 0, linked |-> 0, setPre |-> FALSE,
            aborted |-> FALSE, exact1 |-> "skipped", kb1 |-> "skipped", answer |-> "skipped",
            kb |-> "skipped", off |-> "skipped", clar |-> "skipped", create |-> "skipped",
            createCalls |-> 0, files |-> "skipped", posted |-> FALSE]

\* combined_question = f"{pre_task_original_question}\n\n<clarification label>: {message.text}"
CombinedQuestion(pre, txt) == pre \o <<"", "CLARIFICATION:">> \o txt

\* confidences in hundredths
MinConfidenceDefault == 85
MinConfidenceFlow == 85
MinConfidenceExpert == 92
MinConfidenceAnswer == 82
Confidences == {80, 83, 90, 95}

\* what the playbook extraction by the LLM gives: a playbook with a reply (with or
\* without create_task), or nothing (empty reply, rejected answer, exception)
LlmPlaybooks == {"fail", "reply", "reply_task"}

\* AIService.get_kb_playbook: exact = find_exact_match_in_kb found the title,
\* conf = confidence of the semantic search, embed_ok = the embeddings call returned
get_kb_playbook(exact, conf, embed_ok, llm, min_confidence) ==
    IF exact
    THEN IF llm = "fail" THEN "none" ELSE llm
    ELSE IF ~embed_ok THEN "raise"
    ELSE IF conf < min_confidence THEN "none"
    ELSE IF llm = "fail" THEN "none" ELSE llm

\* AIService.generate_response: the success flag
generate_response(conf, embed_ok, llm_ok) ==
    IF ~embed_ok THEN "raise"
    ELSE IF conf < MinConfidenceAnswer THEN "no"
    ELSE IF llm_ok THEN "yes" ELSE "no"

\* AIService.get_expert_answer: an answer or (None, False); exceptions are caught below it
get_expert_answer(found) == IF found THEN "yes" ELSE "no"

\* _create_or_update_task_flow: pb = result of get_kb_playbook(min_confidence=0.85),
\* off = check_if_off_tariff, sales = settings.sales_responsible_ids is set,
\* clar = check_request_completeness returned a question,
\* ok = bitrix_service.create_task returned an id
TaskFlow(pb, off, sales, clar, ok, skip_clarification) ==
    LET r0 == [ZeroRes EXCEPT !.kb = pb]
        made == IF ok THEN "ok" ELSE "fail"
        n == IF ok THEN 1 ELSE 0
    IN IF pb = "raise" THEN [r0 EXCEPT !.aborted = TRUE]
       ELSE IF pb = "reply_task"
       THEN [r0 EXCEPT !.create = made, !.createCalls = 1, !.created = n, !.linked = n, !.replies = 1, !.botHist = 1]
       ELSE IF pb = "reply"
       THEN [r0 EXCEPT !.replies = 1, !.botHist = 1]
       ELSE IF off
       THEN IF sales
            THEN [r0 EXCEPT !.off = "yes", !.replies = 1, !.botHist = 1,
                            !.create = made, !.createCalls = 1, !.created = n]
            ELSE [r0 EXCEPT !.off = "yes", !.replies = 1, !.botHist = 1]
       ELSE IF ~skip_clarification /\ clar
       THEN [r0 EXCEPT !.off = "no", !.clar = "asked", !.replies = 1, !.botHist = 1,
                       !.setPre = TRUE]
       ELSE LET r1 == [r0 EXCEPT !.off = "no",
                                 !.clar = IF skip_clarification THEN "skipped" ELSE "complete"]
            IN IF ok
               THEN [r1 EXCEPT !.create = "ok", !.createCalls = 1, !.created = 1, !.linked = 1,
                               !.replies = 1, !.botHist = 1]
               ELSE [r1 EXCEPT !.create = "fail", !.createCalls = 1, !.replies = 1]

\* the adapter results _create_or_update_task_flow reads
FlowInputs == [pb : Playbooks, off : BOOLEAN, sales : BOOLEAN,
               clar : BOOLEAN, ok : BOOLEAN]

\* the flow with the completeness check always on
FlowNoSkip(in, skip_clarification) == TaskFlow(in.pb, in.off, in.sales, in.clar, in.ok, FALSE)

Flow(in, skip_clarification) == TaskFlow(in.pb, in.off, in.sales, in.clar, in.ok, skip_clarification)

DirectReply == [ZeroRes EXCEPT !.replies = 1, !.botHist = 1]

\* the playbook-first part shared by the expert and non-standard-FAQ branches;
\* pb1 = the branch's own get_kb_playbook, answer = the second lookup
\* (get_expert_answer / generate_response)
KbThenAnswer(pb1, answer, in, skipOnFail) ==
    IF pb1 = "raise" THEN [ZeroRes EXCEPT !.kb1 = pb1, !.aborted = TRUE]
    ELSE IF pb1 = "reply_task" THEN [Flow(in, TRUE) EXCEPT !.kb1 = pb1]
    ELSE IF pb1 = "reply" THEN [DirectReply EXCEPT !.kb1 = pb1]
    ELSE IF answer = "raise" THEN [ZeroRes EXCEPT !.kb1 = pb1, !.answer = answer, !.aborted = TRUE]
    ELSE IF answer = "yes" THEN [DirectReply EXCEPT !.kb1 = pb1, !.answer = answer]
    ELSE [Flow(in, skipOnFail) EXCEPT !.kb1 = pb1, !.answer = answer]

\* handle_text_message after classification: the category dispatch
CategoryDispatch(cat, viaPre, pb1, answer, in) ==
    IF viaPre
    THEN IF cat = "chitchat" THEN Flow(in, TRUE)
         ELSE IF cat \in {"expert_question", "non_standard_faq"}
              THEN KbThenAnswer(pb1, answer, in, TRUE)
         ELSE Flow(in, TRUE)
    ELSE IF cat = "chitchat" THEN DirectReply
         ELSE IF cat \in {"bitrix_task", "general_question"}
              THEN Flow(in, FALSE)
         ELSE IF cat \in {"expert_question", "non_standard_faq"}
              THEN KbThenAnswer(pb1, answer, in, FALSE)
         ELSE ZeroRes

\* the knowledge base as one lookup sees it: each get_kb_playbook call cleans the
\* question with its own expand_user_query call and searches with what that gave
KbStates == [exact : BOOLEAN, conf : Confidences]

\* the results get_kb_playbook can give for one knowledge-base state and threshold
PlaybookOutcomes(kbs, min_confidence) ==
    {get_kb_playbook(kbs.exact, kbs.conf, embed_ok, llm, min_confidence) :
        embed_ok \in BOOLEAN, llm \in LlmPlaybooks}

\* the results of the second lookup of the branch
AnswerOutcomes(cat) ==
    IF cat = "expert_question" THEN {get_expert_answer(found) : found \in BOOLEAN}
    ELSE {generate_response(conf, embed_ok, llm_ok) :
            conf \in Confidences, embed_ok \in BOOLEAN, llm_ok \in BOOLEAN}

\* the threshold of the branch's own playbook lookup
BranchConfidence(cat) ==
    IF cat = "expert_question" THEN MinConfidenceExpert ELSE MinConfidenceDefault

\* the result of a turn with the exact-match flag of the branch's own lookup (kbs1);
\* the lookup of the ticket flow cleans the question again and searches on its own
WithExact(r, kbs1) ==
    [r EXCEPT !.exact1 = IF r.kb1 = "skipped" THEN "skipped"
                         ELSE IF kbs1.exact THEN "yes" ELSE "no"]

\* every outcome of one turn over all results the adapters can return
TurnResults(cat, viaPre) ==
    UNION {UNION {{WithExact(CategoryDispatch(cat, viaPre, pb1, answer,
                                              [pb |-> pb, off |-> off, sales |-> sales,
                                               clar |-> clar, ok |-> ok]), kbs1) :
                      answer \in AnswerOutcomes(cat), off \in BOOLEAN, sales \in BOOLEAN,
                      clar \in BOOLEAN, ok \in BOOLEAN} :
                  pb1 \in PlaybookOutcomes(kbs1, BranchConfidence(cat)),
                  pb \in PlaybookOutcomes(kbs, MinConfidenceFlow)} :
           kbs1 \in KbStates, kbs \in KbStates}

\* TurnResults tabulated once for every category and both routes
TurnTable ==
    [cat \in Categories |-> [viaPre \in BOOLEAN |-> TurnResults(cat, viaPre)]]

\* every outcome a turn can have
AllTurnResults == UNION {TurnTable[cat][viaPre] : cat \in Categories, viaPre \in BOOLEAN}

\* the effects of a turn without the calls that led to them
Effects(r) == [replies |-> r.replies, botHist |-> r.botHist, created |-> r.created,
               linked |-> r.linked, setPre |-> r.setPre]

DispatchResults(cat, viaPre) ==
    IF cat \in Categories THEN {Effects(r) : r \in TurnTable[cat][viaPre]} ELSE {}

\* DispatchResults tabulated once for every category and both routes
DispatchTable ==
    [cat \in Categories \cup {"none"} |-> [viaPre \in BOOLEAN |-> DispatchResults(cat, viaPre)]]

\* the effects a turn can have
AllResults == UNION {DispatchTable[cat][viaPre] : cat \in Categories, viaPre \in BOOLEAN}

NoClarify == [key |-> 0, tid |-> None, existing |-> None]

IdleSlot == [kind |-> "idle", pc |-> "idle", key |-> 0, text |-> <<>>, pre |-> NoQuestion,
             tid |-> None, wno |-> 0, question |-> <<>>, cat |-> "none", viaPre |-> FALSE]

RouterVarsInit ==
    /\ pending_clarify = [k \in Keys |-> None]
    /\ pending_pre = [k \in Keys |-> NoQuestion]
    /\ hs = [h \in Slots |-> IdleSlot]
    /\ msgCount = 0
    /\ classifyLog = [k \in Keys |-> <<>>]
    /\ commentLog = [k \in Keys |-> <<>>]
    /\ popLog = [k \in Keys |-> <<>>]
    /\ arrivals = [k \in Keys |-> <<>>]
    /\ waitNo = [k \in Keys |-> 0]
    /\ lastClarify = NoClarify

\* a new update is handled by a fresh coroutine: the lowest free slot
FreeSlot(h) == hs[h].kind = "idle" /\ \A g \in Slots : g < h => hs[g].kind # "idle"

\* handle_text_message, staff branch: the text is only saved to the history
StaffText(h, k, txt) ==
    /\ FreeSlot(h)
    /\ msgCount < MaxMsgs
    /\ txt = MsgTexts[msgCount + 1]
    /\ msgCount' = msgCount + 1
    /\ UNCHANGED <<pending_clarify, pending_pre, hs, classifyLog, commentLog, popLog,
                   arrivals, waitNo, lastClarify, dvars, pvars, tvars, hvars, cvars, kvars, xvars>>

\* handle_text_message up to the first await after the staff filter:
\* pops the pre-ticket wait (the ticket wait is read but the value is not used),
\* then awaits the history insert
TextStart(h, k, txt) ==
    /\ FreeSlot(h)
    /\ msgCount < MaxMsgs
    /\ txt = MsgTexts[msgCount + 1]
    /\ msgCount' = msgCount + 1
    /\ LET p == pop_pending_pre_task_clarification(pending_pre, k)
       IN /\ pending_pre' = p.state
          /\ hs' = [hs EXCEPT ![h] = [IdleSlot EXCEPT !.kind = "text", !.pc = "route", !.key = k,
                                                     !.text = <<txt>>, !.pre = p.ret]]
    /\ arrivals' = [arrivals EXCEPT ![k] = Append(@, txt)]
    /\ UNCHANGED <<pending_clarify, classifyLog, commentLog, popLog, waitNo, lastClarify, dvars, pvars, tvars, hvars, cvars, kvars, xvars>>

\* handle_text_message after the history insert: pre-ticket branch first,
\* otherwise pop the ticket wait
TextRoute(h) ==
    /\ hs[h].kind = "text" /\ hs[h].pc = "route"
    /\ LET k == hs[h].key IN
       IF hs[h].pre # NoQuestion
       THEN /\ hs' = [hs EXCEPT ![h].pc = "classify", ![h].viaPre = TRUE, ![h].tid = None,
                                ![h].question = CombinedQuestion(hs[h].pre, hs[h].text)]
            /\ UNCHANGED <<pending_clarify, popLog>>
       ELSE LET p == pop_pending_clarify(pending_clarify, k) IN
            /\ pending_clarify' = p.state
            /\ IF p.ret # None
               THEN /\ hs' = [hs EXCEPT ![h].pc = "comment", ![h].tid = p.ret, ![h].wno = waitNo[k]]
                    /\ popLog' = [popLog EXCEPT ![k] = Append(@, [tid |-> p.ret, wno |-> waitNo[k], by |-> "text"])]
               ELSE /\ hs' = [hs EXCEPT ![h].pc = "classify", ![h].tid = None,
                                        ![h].question = hs[h].text]
                    /\ UNCHANGED popLog
    /\ UNCHANGED <<pending_pre, msgCount, classifyLog, commentLog, arrivals, waitNo, lastClarify, dvars, pvars, tvars, hvars, cvars, kvars, xvars>>

\* handle_text_message, ticket-wait branch: add_comment, reply (worded by its result), history, return
TextComment(h) ==
    /\ hs[h].kind = "text" /\ hs[h].pc = "comment"
    /\ commentLog' = [commentLog EXCEPT ![hs[h].key] =
                        Append(@, [tid |-> hs[h].tid, wno |-> hs[h].wno, by |-> "text",
                                   text |-> <<"CLIENT_CLARIFICATION:">> \o hs[h].text])]
    /\ hs' = [hs EXCEPT ![h] = IdleSlot]
    /\ UNCHANGED <<pending_clarify, pending_pre, msgCount, classifyLog, popLog, arrivals,
                   waitNo, lastClarify, dvars, pvars, tvars, hvars, cvars, kvars, xvars>>

\* ai_service.classify_question(question, history) returns cat
TextClassify(h, cat) ==
    /\ hs[h].kind = "text" /\ hs[h].pc = "classify"
    /\ classifyLog' = [classifyLog EXCEPT ![hs[h].key] = Append(@, hs[h].question)]
    /\ hs' = [hs EXCEPT ![h].pc = "dispatch", ![h].cat = cat]
    /\ UNCHANGED <<pending_clarify, pending_pre, msgCount, commentLog, popLog, arrivals,
                   waitNo, lastClarify, dvars, pvars, tvars, hvars, cvars, kvars, xvars>>

\* handle_text_message, category dispatch to the end of the turn
TextDispatch(h, res) ==
    /\ hs[h].kind = "text" /\ hs[h].pc = "dispatch"
    /\ res \in DispatchTable[hs[h].cat][hs[h].viaPre]
    /\ pending_pre' = IF res.setPre
                      THEN set_pending_pre_task_clarification(pending_pre, hs[h].key, hs[h].question)
                      ELSE pending_pre
    /\ hs' = [hs EXCEPT ![h] = IdleSlot]
    /\ UNCHANGED <<pending_clarify, msgCount, classifyLog, commentLog, popLog, arrivals,
                   waitNo, lastClarify, dvars, pvars, tvars, hvars, cvars, kvars, xvars>>

\* handle_attachments up to the awaits that fetch the file links
AttachStart(h, k) ==
    /\ FreeSlot(h)
    /\ msgCount < MaxMsgs
    /\ msgCount' = msgCount + 1
    /\ hs' = [hs EXCEPT ![h] = [IdleSlot EXCEPT !.kind = "attach", !.pc = "pop", !.key = k]]
    /\ UNCHANGED <<pending_clarify, pending_pre, classifyLog, commentLog, popLog, arrivals,
                   waitNo, lastClarify, dvars, pvars, tvars, hvars, cvars, kvars, xvars>>

\* handle_attachments: pop the ticket wait; with a wait the files go to that ticket,
\* without one they go to the last active / a new / the documents ticket
AttachPop(h) ==
    /\ hs[h].kind = "attach" /\ hs[h].pc = "pop"
    /\ LET k == hs[h].key
           p == pop_pending_clarify(pending_clarify, k)
       IN /\ pending_clarify' = p.state
          /\ IF p.ret # None
             THEN /\ popLog' = [popLog EXCEPT ![k] = Append(@, [tid |-> p.ret, wno |-> waitNo[k], by |-> "attach"])]
                  /\ hs' = [hs EXCEPT ![h].pc = "comment", ![h].tid = p.ret, ![h].wno = waitNo[k]]
             ELSE /\ UNCHANGED popLog
                  /\ hs' = [hs EXCEPT ![h].pc = "bind"]
    /\ UNCHANGED <<pending_pre, msgCount, classifyLog, commentLog, arrivals, waitNo, lastClarify, dvars, pvars, tvars, hvars, cvars, kvars, xvars>>

\* handle_attachments, ticket-wait branch: _append_files_comment on the waited ticket
AttachComment(h) ==
    /\ hs[h].kind = "attach" /\ hs[h].pc = "comment"
    /\ commentLog' = [commentLog EXCEPT ![hs[h].key] =
                        Append(@, [tid |-> hs[h].tid, wno |-> hs[h].wno, by |-> "attach",
                                   text |-> <<"[TG_ATTACH]">>])]
    /\ hs' = [hs EXCEPT ![h] = IdleSlot]
    /\ UNCHANGED <<pending_clarify, pending_pre, msgCount, classifyLog, popLog, arrivals,
                   waitNo, lastClarify, dvars, pvars, tvars, hvars, cvars, kvars, xvars>>

\* handle_attachments without a wait: bind to another ticket (or give up) and return
AttachBind(h) ==
    /\ hs[h].kind = "attach" /\ hs[h].pc = "bind"
    /\ hs' = [hs EXCEPT ![h] = IdleSlot]
    /\ UNCHANGED <<pending_clarify, pending_pre, msgCount, classifyLog, commentLog, popLog,
                   arrivals, waitNo, lastClarify, dvars, pvars, tvars, hvars, cvars, kvars, xvars>>

\* handle_clarify_callback: what the user is told, by the result of set_pending_clarify
ClarifyAnswer(existing_task_id, task_id) ==
    IF existing_task_id # None
    THEN IF existing_task_id = task_id
         THEN [alert |-> "already_waiting", about |-> task_id]
         ELSE [alert |-> "finish_previous", about |-> existing_task_id]
    ELSE [alert |-> "listening", about |-> task_id]

\* the handlers of handlers/messages.py that can be in progress at the same time
TurnSlots == {1, 2}

\* handlers/callbacks.py handle_clarify_callback from the set_pending_clarify call on:
\* the awaits that follow only answer the user
ClarifyCallback(k, task_id) ==
    /\ LET s == set_pending_clarify(pending_clarify, k, task_id) IN
       /\ pending_clarify' = s.state
       /\ waitNo' = IF s.ret = None THEN [waitNo EXCEPT ![k] = @ + 1] ELSE waitNo
       /\ lastClarify' = [key |-> k, tid |-> task_id, existing |-> s.ret]
    /\ UNCHANGED <<pending_pre, hs, msgCount, classifyLog, commentLog, popLog, arrivals,
                   dvars, pvars, tvars, hvars, cvars, kvars, xvars>>

\* the same handler with the histories waitNo and lastClarify left alone
ClarifyCallbackPlain(k, task_id) ==
    /\ pending_clarify' = set_pending_clarify(pending_clarify, k, task_id).state
    /\ UNCHANGED <<pending_pre, hs, msgCount, classifyLog, commentLog, popLog, arrivals,
                   waitNo, lastClarify, dvars, pvars, tvars, hvars, cvars, kvars, xvars>>

CancelVarsInit == cancels = <<>>

\* handle_cancel_clarify_callback from get_pending_clarify on: without a wait, or with
\* the wait of another task, the user is alerted and the handler returns; otherwise
\* it calls STATE.remove_pending_clarify, an attribute AppState does not have, and
\* the AttributeError ends the handler
handle_cancel_clarify_callback(pc, key, task_id) ==
    LET existing_task_id == get_pending_clarify(pc, key)
    IN IF existing_task_id = None THEN [state |-> pc, outcome |-> "no_wait"]
       ELSE IF existing_task_id # task_id THEN [state |-> pc, outcome |-> "other_task"]
       ELSE [state |-> pc, outcome |-> "raised"]

CancelClarifyCallback(k, task_id) ==
    /\ Len(cancels) < MaxCancels
    /\ LET r == handle_cancel_clarify_callback(pending_clarify, k, task_id) IN
       /\ pending_clarify' = r.state
       /\ cancels' = Append(cancels, [key |-> k, tid |-> task_id, outcome |-> r.outcome])
    /\ UNCHANGED <<pending_pre, hs, msgCount, classifyLog, commentLog, popLog, arrivals,
                   waitNo, lastClarify, dvars, pvars, tvars, hvars, cvars, xvars>>

\* TTLCache(ttl=900): an entry older than the TTL is gone
PreTicketExpire(k) ==
    /\ pending_pre[k] # NoQuestion
    /\ pending_pre' = [pending_pre EXCEPT ![k] = NoQuestion]
    /\ UNCHANGED <<pending_clarify, hs, msgCount, classifyLog, commentLog, popLog, arrivals,
                   waitNo, lastClarify, dvars, pvars, tvars, hvars, cvars, kvars, xvars>>

RouterNext ==
    \/ \E h \in Slots, k \in Keys, txt \in InRangeOf(MsgTexts) : StaffText(h, k, txt)
    \/ \E h \in Slots, k \in Keys, txt \in InRangeOf(MsgTexts) : TextStart(h, k, txt)
    \/ \E h \in Slots : TextRoute(h)
    \/ \E h \in Slots : TextComment(h)
    \/ \E h \in Slots, cat \in Categories : TextClassify(h, cat)
    \/ \E h \in Slots, res \in AllResults : TextDispatch(h, res)
    \/ \E h \in Slots, k \in Keys : AttachStart(h, k)
    \/ \E h \in Slots : AttachPop(h)
    \/ \E h \in Slots : AttachComment(h)
    \/ \E h \in Slots : AttachBind(h)
    \/ \E k \in Keys, t \in TicketIds : ClarifyCallback(k, t)
    \/ \E k \in Keys : PreTicketExpire(k)

(***************************************************************************)
(* handlers/messages.py: the turns of one chat.  Every update is handled   *)
(* in a task of its own, so a handler starts while another one is          *)
(* suspended at an await; a slot holds one running handler                 *)
(***************************************************************************)
NoAge == -1

IdleTurn == [pc |-> "idle", kind |-> "none", key |-> 0, text |-> <<>>, pre |-> NoQuestion,
             question |-> <<>>, cat |-> "none", classified |-> "skipped", viaPre |-> FALSE,
             userHist |-> 0, fileLinks |-> FALSE, waited |-> None,
             res |-> ZeroRes]

\* a new update is handled by a fresh task: the lowest free slot
FreeTurn(h) == turn[h].pc = "idle" /\ \A g \in TurnSlots : g < h => turn[g].pc # "idle"

TurnVarsInit ==
    /\ turn = [h \in TurnSlots |-> IdleTurn]
    /\ turnNo = 0
    /\ preAge = [k \in Keys |-> NoAge]

\* a cache that keeps its entries whatever their age
ExpirePreNever(pp, age) == pp

\* TTLCache(ttl=900) seen through the entries' ages: an entry whose age reached the
\* TTL is not in the cache any more

ExpirePre(pp, age) ==
    [k \in Keys |-> IF age[k] >= TtlTicks THEN NoQuestion ELSE pp[k]]

\* the timer of the TTLCache advances by one tick
Tick ==
    /\ \E k \in Keys : preAge[k] # NoAge /\ preAge[k] < TtlTicks
    /\ preAge' = [k \in Keys |-> IF preAge[k] = NoAge \/ preAge[k] >= TtlTicks
                                 THEN preAge[k] ELSE preAge[k] + 1]
    /\ pending_pre' = ExpirePre(pending_pre, preAge')
    /\ UNCHANGED <<pending_clarify, hs, msgCount, classifyLog, commentLog, popLog, arrivals,
                   waitNo, lastClarify, turn, turnNo, dvars, pvars, hvars, cvars, kvars, xvars>>

\* the handler without the staff filter: a staff text is routed like a client's text
TurnStartNoStaffFilter(h, k, txt, staff) ==
    /\ FreeTurn(h)
    /\ turnNo < MaxTurns
    /\ txt = MsgTexts[turnNo + 1]
    /\ turnNo' = turnNo + 1
    /\ LET p == pop_pending_pre_task_clarification(pending_pre, k) IN
       /\ pending_pre' = p.state
       /\ preAge' = [preAge EXCEPT ![k] = IF p.ret # NoQuestion THEN NoAge ELSE @]
       /\ turn' = [turn EXCEPT ![h] =
                      [IdleTurn EXCEPT !.pc = "route", !.kind = IF staff THEN "staff" ELSE "text",
                                       !.key = k, !.text = <<txt>>, !.pre = p.ret, !.userHist = 1]]
    /\ UNCHANGED <<pending_clarify, hs, msgCount, classifyLog, commentLog, popLog, arrivals,
                   waitNo, lastClarify, dvars, pvars, hvars, cvars, kvars, xvars>>

\* handle_text_message up to the inbound history insert: staff texts are only saved,
\* other texts pop the pre-ticket wait first
TurnStart(h, k, txt, staff) ==
    /\ FreeTurn(h)
    /\ turnNo < MaxTurns
    /\ txt = MsgTexts[turnNo + 1]
    /\ turnNo' = turnNo + 1
    /\ IF staff
       THEN /\ turn' = [turn EXCEPT ![h] =
                           [IdleTurn EXCEPT !.pc = "done", !.kind = "staff", !.key = k,
                                            !.text = <<txt>>, !.userHist = 1]]
            /\ UNCHANGED <<pending_pre, preAge>>
       ELSE LET p == pop_pending_pre_task_clarification(pending_pre, k) IN
            /\ pending_pre' = p.state
            /\ preAge' = [preAge EXCEPT ![k] = IF p.ret # NoQuestion THEN NoAge ELSE @]
            /\ turn' = [turn EXCEPT ![h] =
                           [IdleTurn EXCEPT !.pc = "route", !.kind = "text", !.key = k,
                                            !.text = <<txt>>, !.pre = p.ret, !.userHist = 1]]
    /\ UNCHANGED <<pending_clarify, hs, msgCount, classifyLog, commentLog, popLog, arrivals,
                   waitNo, lastClarify, dvars, pvars, hvars, cvars, kvars, xvars>>

\* handle_text_message after the history insert: the pre-ticket branch first, otherwise
\* pop the ticket wait; with a ticket wait the text becomes a comment and is answered
TurnRoute(h) ==
    /\ turn[h].pc = "route"
    /\ IF turn[h].pre # NoQuestion
       THEN /\ turn' = [turn EXCEPT ![h] =
                           [@ EXCEPT !.pc = "classify", !.viaPre = TRUE,
                                     !.question = CombinedQuestion(turn[h].pre, turn[h].text)]]
            /\ UNCHANGED pending_clarify
       ELSE LET p == pop_pending_clarify(pending_clarify, turn[h].key) IN
            /\ pending_clarify' = p.state
            /\ turn' = [turn EXCEPT ![h] =
                           IF p.ret # None
                           THEN [@ EXCEPT !.pc = "done", !.kind = "comment", !.res = DirectReply]
                           ELSE [@ EXCEPT !.pc = "classify", !.question = turn[h].text]]
    /\ UNCHANGED <<pending_pre, hs, msgCount, classifyLog, commentLog, popLog, arrivals,
                   waitNo, lastClarify, turnNo, preAge, dvars, pvars, hvars, cvars, kvars, xvars>>

\* what the LLM can answer: the value of a QuestionCategory, or some other text
RawCategories == Categories \cup {"unknown"}

\* the fallback written as the small-talk category
classify_question_chitchat(raw_category, call_ok) ==
    IF call_ok /\ raw_category \in Categories THEN raw_category ELSE "chitchat"

\* AIService.classify_question: QuestionCategory(raw_category); bitrix_task on
\* ValueError and when the call raises
classify_question(raw_category, call_ok) ==
    IF call_ok /\ raw_category \in Categories THEN raw_category ELSE "bitrix_task"

TurnClassify(h, raw_category, call_ok) ==
    /\ turn[h].pc = "classify"
    /\ turn' = [turn EXCEPT ![h] =
                   [@ EXCEPT !.pc = "dispatch", !.cat = classify_question(raw_category, call_ok),
                             !.classified = IF ~call_ok THEN "failed"
                                            ELSE IF raw_category \in Categories THEN "ok"
                                            ELSE "malformed"]]
    /\ UNCHANGED <<rvars, turnNo, preAge, dvars, pvars, hvars, cvars, kvars, xvars>>

\* handle_text_message, category dispatch to the end of the turn
TurnDispatch(h, res) ==
    /\ turn[h].pc = "dispatch"
    /\ res \in TurnTable[turn[h].cat][turn[h].viaPre]
    /\ pending_pre' = IF res.setPre
                      THEN set_pending_pre_task_clarification(pending_pre, turn[h].key, turn[h].question)
                      ELSE pending_pre
    /\ preAge' = IF res.setPre THEN [preAge EXCEPT ![turn[h].key] = 0] ELSE preAge
    /\ turn' = [turn EXCEPT ![h] = [@ EXCEPT !.pc = "done", !.res = res]]
    /\ UNCHANGED <<pending_clarify, hs, msgCount, classifyLog, commentLog, popLog, arrivals,
                   waitNo, lastClarify, turnNo, dvars, pvars, hvars, cvars, kvars, xvars>>

\* the try around the question ticket of handle_attachments: "raised" = the history
\* read or summarize_for_task raised before create_task was called, "none" = create_task
\* returned no id, "linked" = it returned an id and the commit of the link row went
\* through, "unlinked" = it returned an id and the add or commit of the row raised
SmartTickets == {"raised", "none", "linked", "unlinked"}

\* what find_or_create_docs_task does: "unset" = no webhook is configured and it
\* returns None at once, "found" = an open documents ticket, "created" = none found
\* and create_task returned an id, "none" = none found and create_task returned None
DocsTickets == {"unset", "found", "created", "none"}

\* the documents ticket path of handle_attachments after a question ticket path that
\* made calls create_task calls and gave no ticket
DocsFlow(calls, docs) ==
    LET made == IF calls = 0 THEN "skipped" ELSE "fail"
    IN IF docs = "found"
       THEN [ZeroRes EXCEPT !.create = made, !.createCalls = calls, !.replies = 1,
                            !.files = "other"]
       ELSE IF docs = "created"
       THEN [ZeroRes EXCEPT !.create = "ok", !.createCalls = calls + 1, !.created = 1,
                            !.replies = 1, !.files = "other"]
       ELSE IF docs = "none"
       THEN [ZeroRes EXCEPT !.create = "fail", !.createCalls = calls + 1]
       ELSE [ZeroRes EXCEPT !.create = made, !.createCalls = calls]

\* handle_attachments after the pop of the ticket wait: waited = the popped wait,
\* active_link = an active question link of the client exists, smart = what the try
\* around the question ticket gave, docs = what find_or_create_docs_task gave.
\* files = "waited" is the _append_files_comment call on the popped ticket, "other" the
\* one on another ticket
BindFiles(waited, active_link, smart, docs) ==
    IF waited # None THEN [ZeroRes EXCEPT !.replies = 1, !.files = "waited"]
    ELSE IF active_link THEN [ZeroRes EXCEPT !.replies = 1, !.files = "other"]
    ELSE IF smart \in {"linked", "unlinked"}
    THEN [ZeroRes EXCEPT !.create = "ok", !.createCalls = 1, !.created = 1,
                         !.linked = IF smart = "linked" THEN 1 ELSE 0,
                         !.replies = 1, !.files = "other"]
    ELSE DocsFlow(IF smart = "none" THEN 1 ELSE 0, docs)

\* handle_attachments from the bot.get_file requests on.  get_file_ok: none of them
\* raised (a raise leaves the handler: nothing is popped, bound or answered);
\* comment_ok: bitrix.add_comment returned True for the files comment, a result
\* _append_files_comment does not look at
AttachmentFlow(get_file_ok, waited, active_link, smart, docs, comment_ok) ==
    IF ~get_file_ok THEN [ZeroRes EXCEPT !.aborted = TRUE]
    ELSE LET r == BindFiles(waited, active_link, smart, docs)
         IN [r EXCEPT !.posted = (r.files # "skipped" /\ comment_ok)]

\* handle_attachments up to its first await: the attachment arrives; one of a staff
\* username is only saved to the history (its caption)
TurnAttach(h, k, staff) ==
    /\ FreeTurn(h)
    /\ turnNo < MaxTurns
    /\ turnNo' = turnNo + 1
    /\ turn' = [turn EXCEPT ![h] =
                   IF staff
                   THEN [IdleTurn EXCEPT !.pc = "done", !.kind = "staff_attach", !.key = k,
                                         !.userHist = 1]
                   ELSE [IdleTurn EXCEPT !.pc = "files", !.kind = "attach", !.key = k]]
    /\ UNCHANGED <<rvars, preAge, dvars, pvars, hvars, cvars, kvars, xvars>>

\* handle_attachments after the bot.get_file requests: the handler pops the ticket
\* wait and binds the files.  fileLinks: the file links were obtained; waited:
\* pending_task_id
TurnAttachFiles(h, get_file_ok, active_link, smart, docs, comment_ok) ==
    /\ turn[h].pc = "files"
    /\ LET k == turn[h].key
           p == IF get_file_ok THEN pop_pending_clarify(pending_clarify, k)
                ELSE [ret |-> None, state |-> pending_clarify]
       IN /\ pending_clarify' = p.state
          /\ turn' = [turn EXCEPT ![h] =
                         [@ EXCEPT !.pc = "done", !.fileLinks = get_file_ok, !.waited = p.ret,
                                   !.res = AttachmentFlow(get_file_ok, p.ret, active_link,
                                                          smart, docs, comment_ok)]]
    /\ UNCHANGED <<pending_pre, hs, msgCount, classifyLog, commentLog, popLog, arrivals,
                   waitNo, lastClarify, turnNo, preAge, dvars, pvars, hvars, cvars, kvars, xvars>>

\* the handler returned: its task is over
TurnEnd(h) ==
    /\ turn[h].pc = "done"
    /\ turn' = [turn EXCEPT ![h] = IdleTurn]
    /\ UNCHANGED <<rvars, turnNo, preAge, dvars, pvars, hvars, cvars, kvars, xvars>>

TurnNext ==
    \/ \E h \in TurnSlots, k \in Keys, txt \in InRangeOf(MsgTexts), staff \in BOOLEAN :
          TurnStart(h, k, txt, staff)
    \/ \E h \in TurnSlots : TurnRoute(h)
    \/ \E h \in TurnSlots, raw_category \in RawCategories, call_ok \in BOOLEAN :
          TurnClassify(h, raw_category, call_ok)
    \/ \E h \in TurnSlots, res \in AllTurnResults : TurnDispatch(h, res)
    \/ \E h \in TurnSlots, k \in Keys, staff \in BOOLEAN : TurnAttach(h, k, staff)
    \/ \E h \in TurnSlots, get_file_ok, active_link, comment_ok \in BOOLEAN,
          smart \in SmartTickets, docs \in DocsTickets :
          TurnAttachFiles(h, get_file_ok, active_link, smart, docs, comment_ok)
    \/ \E h \in TurnSlots : TurnEnd(h)
    \/ Tick
    \/ \E k \in Keys, t \in TicketIds : ClarifyCallbackPlain(k, t)

\* the turns together with the presses of the cancel-clarify button
CallbacksNext ==
    \/ \E h \in TurnSlots, k \in Keys, txt \in InRangeOf(MsgTexts), staff \in BOOLEAN :
          TurnStart(h, k, txt, staff)
    \/ \E h \in TurnSlots : TurnRoute(h)
    \/ \E h \in TurnSlots, raw_category \in RawCategories, call_ok \in BOOLEAN :
          TurnClassify(h, raw_category, call_ok)
    \/ \E h \in TurnSlots, res \in AllTurnResults : TurnDispatch(h, res)
    \/ \E h \in TurnSlots, k \in Keys, staff \in BOOLEAN : TurnAttach(h, k, staff)
    \/ \E h \in TurnSlots, get_file_ok, active_link, comment_ok \in BOOLEAN,
          smart \in SmartTickets, docs \in DocsTickets :
          TurnAttachFiles(h, get_file_ok, active_link, smart, docs, comment_ok)
    \/ \E h \in TurnSlots : TurnEnd(h)
    \/ Tick
    \/ \E k \in Keys, t \in TicketIds : ClarifyCallbackPlain(k, t)
    \/ \E k \in Keys, t \in TicketIds : CancelClarifyCallback(k, t)

(***************************************************************************)
(* services/chat_history_service.py                                        *)
(***************************************************************************)
NoRead == [chat |-> 0, out |-> <<>>, appended |-> <<>>]

HistoryVarsInit ==
    /\ rows = <<>>
    /\ clock = 0
    /\ recent = NoRead

\* ChatHistoryService.add_message_to_history: one more ChatMessage row,
\* created_at = the column default datetime.utcnow at the insert
add_message_to_history(table, chat_id, content, now) ==
    Append(table, [id |-> Len(table) + 1, chat_id |-> chat_id, content |-> content,
                   created_at |-> now])

\* the rows select(ChatMessage).where(chat_id == ...) ranges over
ChatRows(table, chat_id) == {i \in DOMAIN table : table[i].chat_id = chat_id}

\* the orders the database may give for order_by(desc(created_at)): rows with equal
\* created_at come in any order
DescOrders(table, chat_id) ==
    LET S == ChatRows(table, chat_id)
        n == Cardinality(S)
    IN {o \in [1..n -> S] :
          /\ \A i, j \in 1..n : i # j => o[i] # o[j]
          /\ \A i, j \in 1..n : i < j => table[o[i]].created_at >= table[o[j]].created_at}

\* rows.reverse()
Reverse(sq) == [i \in 1..Len(sq) |-> sq[Len(sq) + 1 - i]]

\* ChatHistoryService.get_recent_messages: .limit(limit) of the descending order,
\* reversed, each row given by its content
get_recent_messages(table, order, limit) ==
    LET n == IF Len(order) < limit THEN Len(order) ELSE limit
        limited == SubSeq(order, 1, n)
    IN [i \in 1..n |-> table[Reverse(limited)[i]].content]

\* the contents appended for the chat, in the order of the appends
AppendedTo(table, chat_id) ==
    LET mine == SelectSeq(table, LAMBDA r : r.chat_id = chat_id)
    IN [i \in 1..Len(mine) |-> mine[i].content]

\* the wall clock advances to the next value the DateTime column can tell apart
ClockAdvance ==
    /\ clock < MaxClock
    /\ clock' = clock + 1
    /\ UNCHANGED <<rows, recent, dvars, rvars, pvars, tvars, cvars, kvars, xvars>>

\* a handler saves an inbound or outbound text of the chat
AddMessage(chat_id) ==
    /\ Len(rows) < MaxRows
    /\ rows' = add_message_to_history(rows, chat_id, MsgTexts[Len(rows) + 1], clock)
    /\ UNCHANGED <<clock, recent, dvars, rvars, pvars, tvars, cvars, kvars, xvars>>

\* a handler reads the context for classification: get_recent_messages(limit=100)
GetRecentMessages(chat_id, order) ==
    /\ order \in DescOrders(rows, chat_id)
    /\ recent' = [chat |-> chat_id, out |-> get_recent_messages(rows, order, HistoryLimit),
                  appended |-> AppendedTo(rows, chat_id)]
    /\ UNCHANGED <<rows, clock, dvars, rvars, pvars, tvars, cvars, kvars, xvars>>

\* every sequence of rows that can be an order
AllOrders == UNION {[1..n -> 1..MaxRows] : n \in 0..MaxRows}

HistoryNext ==
    \/ ClockAdvance
    \/ \E chat_id \in ChatIds : AddMessage(chat_id)
    \/ \E chat_id \in ChatIds, order \in AllOrders : GetRecentMessages(chat_id, order)

(***************************************************************************)
(* services/bitrix_service.py: what the poller fetches                     *)
(***************************************************************************)
\* _get_all_user_comments: the bot's own comments are dropped by their prefix,
\* the others are returned in date order as {id, text, files}
UserComments(cs) == SelectSeq(cs, LAMBDA c : c.kind # "bot")

\* tickets in the order of the task list request ("order": {"ID": "DESC"})
RECURSIVE DescSeq(_)
DescSeq(S) ==
    IF S = {} THEN <<>>
    ELSE LET m == CHOOSE x \in S : \A y \in S : y <= x
         IN <<m>> \o DescSeq(S \ {m})

\* tasks.task.list with the filter "!STATUS": 5: the tasks that are not completed,
\* each with its status
TaskList ==
    LET ts == DescSeq({t \in Tickets : extStatus[t] # StatusDone})
    IN [i \in 1..Len(ts) |-> [id |-> ts[i], status |-> extStatus[ts[i]]]]

(***************************************************************************)
(* core/scheduler.py: the job check_updates of setup_jobs. add_job is      *)
(* called with the trigger and the id only, so the AsyncIOScheduler runs   *)
(* the job with its defaults: max_instances = 1 and coalesce = True        *)
(***************************************************************************)
MaxInstances == 1

CronVarsInit ==
    /\ cronTick = 0
    /\ jobRuns = <<>>
    /\ skippedTicks = {}

\* the executions of the job that have not returned
Instances == Cardinality({i \in DOMAIN jobRuns : jobRuns[i].state = "running"})

\* a scheduler that starts an execution for every due run time
submit_job_always(instances) == TRUE

\* the executor accepts the job unless max_instances executions of it are running
submit_job(instances) == instances < MaxInstances

\* the scheduler wakes up with `due` run times of the trigger behind it: they are
\* coalesced to the latest one, which is submitted; a refused submission is
\* logged and dropped
CronTick(due) ==
    /\ cronTick + due <= MaxTicks
    /\ cronTick' = cronTick + due
    /\ LET run_time == cronTick + due
           merged == (cronTick + 1)..(cronTick + due - 1)
       IN IF submit_job(Instances)
          THEN /\ jobRuns' = Append(jobRuns, [tick |-> run_time, state |-> "running", phase |-> "fetch"])
               /\ skippedTicks' = skippedTicks \cup merged
          ELSE /\ jobRuns' = jobRuns
               /\ skippedTicks' = skippedTicks \cup merged \cup {run_time}
    /\ UNCHANGED <<dvars, rvars, pvars, tvars, hvars, kvars, xvars>>

\* check_task_updates: get_task_updates has returned, the loop over the items starts
JobFetched(i) ==
    /\ i \in DOMAIN jobRuns
    /\ jobRuns[i].state = "running" /\ jobRuns[i].phase = "fetch"
    /\ jobRuns' = [jobRuns EXCEPT ![i].phase = "relay"]
    /\ UNCHANGED <<cronTick, skippedTicks, dvars, rvars, pvars, tvars, hvars, kvars, xvars>>

\* check_task_updates returns: normally, or through its outer except
JobEnd(i, ok) ==
    /\ i \in DOMAIN jobRuns
    /\ jobRuns[i].state = "running"
    /\ jobRuns' = [jobRuns EXCEPT ![i].state = IF ok THEN "done" ELSE "failed"]
    /\ UNCHANGED <<cronTick, skippedTicks, dvars, rvars, pvars, tvars, hvars, kvars, xvars>>

CronNext ==
    \/ \E due \in 1..MaxDue : CronTick(due)
    \/ \E i \in 1..MaxTicks : JobFetched(i)
    \/ \E i \in 1..MaxTicks, ok \in BOOLEAN : JobEnd(i, ok)

(***************************************************************************)
(* core/scheduler.py                                                       *)
(***************************************************************************)
\* the filter loop over all_comments with the flag found_last
RECURSIVE FilterNew(_, _, _)
FilterNew(cs, last_known, found_last) ==
    IF cs = <<>> THEN <<>>
    ELSE (IF found_last THEN <<Head(cs)>> ELSE <<>>)
         \o FilterNew(Tail(cs), last_known, found_last \/ Head(cs).id = last_known)

\* the filter loop with the two tests swapped: the watermark comment itself is kept
RECURSIVE FilterNewInclusive(_, _, _)
FilterNewInclusive(cs, last_known, found_last) ==
    IF cs = <<>> THEN <<>>
    ELSE (IF found_last \/ Head(cs).id = last_known THEN <<Head(cs)>> ELSE <<>>)
         \o FilterNewInclusive(Tail(cs), last_known, found_last \/ Head(cs).id = last_known)

NewCommentsInclusive(all_comments, last_known) ==
    FilterNewInclusive(all_comments, last_known, last_known = None)

\* new_comments of check_task_updates: found_last = not last_known_comment_id
NewComments(all_comments, last_known) ==
    FilterNew(all_comments, last_known, last_known = None)

\* no row, and none to come from a handler: the ticket was not created by a handler
\* of the bot, or the handler's commit of the row failed
NoLink == [exists |-> FALSE, last_comment_id |-> None, is_active |-> FALSE, status |-> NoStatus,
           dup |-> FALSE, awaited |-> FALSE]

\* no row yet: the handler that created the ticket has not committed its row
AwaitedLink == [exists |-> FALSE, last_comment_id |-> None, is_active |-> FALSE, status |-> NoStatus,
                dup |-> FALSE, awaited |-> TRUE]

\* the row the handlers persist when the bot creates a ticket
FreshLink == [exists |-> TRUE, last_comment_id |-> None, is_active |-> TRUE, status |-> NoStatus,
              dup |-> FALSE, awaited |-> FALSE]

\* link: the local variable link holds a row
NoCur == [task |-> 0, status |-> NoStatus, last_known |-> None, link |-> FALSE, queue |-> <<>>,
          newEmpty |-> TRUE]

\* no tickets are linked and the job never runs
PollerVarsIdle ==
    /\ extComments = [t \in Tickets |-> <<>>]
    /\ extStatus = [t \in Tickets |-> StatusOpen]
    /\ nextId = 0
    /\ deletes = 0
    /\ link = [t \in Tickets |-> NoLink]
    /\ clientKnown = TRUE
    /\ ppc = "idle"
    /\ updates = <<>>
    /\ cur = NoCur
    /\ attempts = <<>>
    /\ retry = [t \in Tickets |-> None]
    /\ relayedMax = [t \in Tickets |-> None]
    /\ tasklist = <<>>
    /\ fetched = <<>>

PollerVarsInit ==
    /\ extComments = [t \in Tickets |-> <<>>]
    /\ extStatus = [t \in Tickets |-> StatusOpen]
    /\ nextId = 0
    /\ deletes = 0
    /\ link \in [Tickets -> {NoLink, AwaitedLink, FreshLink}]
    /\ clientKnown \in BOOLEAN
    /\ (\E t \in Tickets : link[t] # NoLink) => clientKnown
    /\ ppc = "idle"
    /\ updates = <<>>
    /\ cur = NoCur
    /\ attempts = <<>>
    /\ retry = [t \in Tickets |-> None]
    /\ relayedMax = [t \in Tickets |-> None]
    /\ tasklist = <<>>
    /\ fetched = <<>>

\* The ticketing system changes at any time: between two jobs and at every await of a
\* running job (the requests of get_task_updates, the selects and commits, the sends).

\* somebody comments on the ticket in the ticketing system
AddComment(t, kind) ==
    /\ nextId < MaxComments
    /\ nextId' = nextId + 1
    /\ extComments' = [extComments EXCEPT ![t] = Append(@, [id |-> nextId + 1, kind |-> kind])]
    /\ UNCHANGED <<extStatus, deletes, link, clientKnown, ppc, updates, cur, attempts, retry, relayedMax, tasklist, fetched, dvars, rvars, tvars, hvars, cvars, kvars, xvars>>

\* somebody deletes a comment in the ticketing system
DeleteComment(t, i) ==
    /\ deletes < MaxDeletes
    /\ i \in DOMAIN extComments[t]
    /\ deletes' = deletes + 1
    /\ extComments' = [extComments EXCEPT ![t] =
                          SubSeq(@, 1, i - 1) \o SubSeq(@, i + 1, Len(@))]
    /\ retry' = [retry EXCEPT ![t] = IF @ = extComments[t][i].id THEN None ELSE @]
    /\ UNCHANGED <<extStatus, nextId, link, clientKnown, ppc, updates, cur, attempts, relayedMax, tasklist, fetched, dvars, rvars, tvars, hvars, cvars, kvars, xvars>>

\* the ticket is completed in the ticketing system
CloseTicket(t) ==
    /\ extStatus[t] # StatusDone
    /\ extStatus' = [extStatus EXCEPT ![t] = StatusDone]
    /\ UNCHANGED <<extComments, nextId, deletes, link, clientKnown, ppc, updates, cur, attempts, retry, relayedMax, tasklist, fetched, dvars, rvars, tvars, hvars, cvars, kvars, xvars>>

\* ClientService.get_or_create_client, called by ClientAuthMiddleware for every
\* message and callback: the user writes to the bot and the Client row is created
ClientRegisters ==
    /\ ~clientKnown
    /\ clientKnown' = TRUE
    /\ UNCHANGED <<extComments, extStatus, nextId, deletes, link, ppc, updates, cur, attempts, retry, relayedMax, tasklist, fetched, dvars, rvars, tvars, hvars, cvars, kvars, xvars>>

\* check_task_updates: the job starts; get_task_updates requests the task list
\* (an empty list, or a list request that failed, is returned to the job at once as
\* [], and the job returns with nothing changed)
PollStart ==
    /\ ppc = "idle"
    /\ TaskList # <<>>
    /\ ppc' = "fetch"
    /\ tasklist' = TaskList
    /\ updates' = <<>>
    /\ cur' = NoCur
    /\ UNCHANGED <<extComments, extStatus, nextId, deletes, link, clientKnown, attempts, retry, relayedMax, fetched, dvars, rvars, tvars, hvars, cvars, kvars, xvars>>

\* get_task_updates: _get_all_user_comments of the next listed task; a task without
\* user comments is left out.  requestOk: the comments request did not fail (a
\* failure is caught and logged and gives the empty list, so the task is left out
\* too).  After the last task the list is returned: the job returns on an empty
\* list and enters its loop otherwise
PollFetch(requestOk) ==
    /\ ppc = "fetch"
    /\ tasklist # <<>>
    /\ LET task == Head(tasklist)
           all_comments == IF requestOk THEN UserComments(extComments[task.id]) ELSE <<>>
           updated_tasks == IF all_comments = <<>> THEN updates
                            ELSE Append(updates, [task_id |-> task.id, status |-> task.status,
                                                  all_comments |-> all_comments])
       IN /\ tasklist' = Tail(tasklist)
          /\ IF Tail(tasklist) # <<>>
             THEN /\ updates' = updated_tasks
                  /\ UNCHANGED <<ppc, fetched>>
             ELSE IF updated_tasks = <<>>
             THEN /\ ppc' = "idle"
                  /\ updates' = <<>>
                  /\ UNCHANGED fetched
             ELSE /\ ppc' = "loop"
                  /\ updates' = updated_tasks
                  /\ fetched' = updated_tasks
    /\ UNCHANGED <<extComments, extStatus, nextId, deletes, link, clientKnown, cur, attempts, retry, relayedMax, dvars, rvars, tvars, hvars, cvars, kvars, xvars>>

\* check_task_updates: next update item: read the link, filter the new comments.
\* selectOk: the select of the row did not raise; with two rows of the task_id
\* one_or_none() raises.  A raise here is caught by the handler of the whole job:
\* the remaining items are dropped and the job returns
PollTicket(selectOk) ==
    /\ ppc = "loop"
    /\ updates # <<>>
    /\ LET item == Head(updates)
           t == item.task_id
           last_known == IF link[t].exists THEN link[t].last_comment_id ELSE None
           new == NewComments(item.all_comments, last_known)
       IN IF ~selectOk \/ link[t].dup
          THEN /\ ppc' = "idle"
               /\ updates' = <<>>
               /\ cur' = NoCur
               /\ attempts' = <<>>
               /\ fetched' = <<>>
          ELSE /\ cur' = [task |-> t, status |-> item.status, last_known |-> last_known,
                          link |-> link[t].exists, queue |-> new, newEmpty |-> (new = <<>>)]
               /\ ppc' = IF new = <<>> THEN "loop" ELSE "send"
               /\ updates' = Tail(updates)
               /\ UNCHANGED <<attempts, fetched>>
    /\ UNCHANGED <<extComments, extStatus, nextId, deletes, link, clientKnown, retry, relayedMax, tasklist, dvars, rvars, tvars, hvars, cvars, kvars, xvars>>

\* the rows of a ticket after a delivered comment is committed.  held: the job's
\* variable link holds a row, which is updated; otherwise a row is created when the
\* Client row of the user exists, next to a row a handler committed meanwhile
LinkAfterDelivery(l, held, comment_id, status_code, client_found) ==
    IF held
    THEN [l EXCEPT !.last_comment_id = comment_id,
                   !.is_active = IF status_code = StatusDone THEN FALSE ELSE @]
    ELSE IF client_found
         THEN [exists |-> TRUE, last_comment_id |-> comment_id,
               is_active |-> (status_code # StatusDone), status |-> status_code,
               dup |-> l.exists, awaited |-> l.awaited]
         ELSE l

HasText(c) == c.kind \in {"text", "both"}

HasFiles(c) == c.kind \in {"files", "both"}

\* check_task_updates: deliver the next new comment of the current ticket.
\* sendOk: bot.send_message of the text did not raise (a comment without text sends
\* none); filesOk: no file download/send raised (those are caught and logged);
\* dbOk: neither the select of the Client row nor the commit raised.
\* A raise of the send or of the database goes to `except: rollback, break`
DeliverComment(sendOk, filesOk, dbOk) ==
    /\ ppc = "send"
    /\ LET c == Head(cur.queue)
           t == cur.task
           raised == HasText(c) /\ ~sendOk
       IN /\ (~HasText(c) => sendOk)
          /\ (~HasFiles(c) => filesOk)
          /\ (raised => filesOk /\ dbOk)
          /\ attempts' = Append(attempts,
                [task |-> t, id |-> c.id, last_known |-> cur.last_known,
                 sent |-> HasText(c) /\ sendOk, raised |-> raised,
                 files |-> IF ~HasFiles(c) \/ raised THEN "none"
                           ELSE IF filesOk THEN "ok" ELSE "failed",
                 committed |-> ~raised /\ dbOk])
          /\ IF raised \/ ~dbOk
             THEN /\ ppc' = "loop"
                  /\ UNCHANGED <<link, cur>>
             ELSE /\ link' = [link EXCEPT ![t] = LinkAfterDelivery(@, cur.link, c.id, cur.status, clientKnown)]
                  /\ cur' = [cur EXCEPT !.queue = Tail(@), !.link = @ \/ clientKnown]
                  /\ ppc' = IF Tail(cur.queue) = <<>> THEN "loop" ELSE "send"
    /\ UNCHANGED <<extComments, extStatus, nextId, deletes, clientKnown, updates, tasklist, fetched, dvars, rvars, tvars, hvars, cvars, kvars, xvars>>

PollDeliver(sendOk, filesOk, dbOk) ==
    /\ DeliverComment(sendOk, filesOk, dbOk)
    /\ UNCHANGED <<relayedMax, retry>>

\* the same step with the delivery written to the histories relayedMax (a comment
\* that reached the chat and whose commit went through) and retry (a comment whose
\* text or files failed and that is still in the ticketing system)
PollDeliverRecorded(sendOk, filesOk, dbOk) ==
    /\ DeliverComment(sendOk, filesOk, dbOk)
    /\ LET c == Head(cur.queue)
           t == cur.task
           raised == HasText(c) /\ ~sendOk
           delivered == (HasText(c) /\ sendOk) \/ (HasFiles(c) /\ ~raised /\ filesOk)
           failed == raised \/ (HasFiles(c) /\ ~filesOk)
           there == \E i \in DOMAIN extComments[t] : extComments[t][i].id = c.id
       IN /\ relayedMax' = IF delivered /\ dbOk
                           THEN [relayedMax EXCEPT ![t] = IF c.id > @ THEN c.id ELSE @]
                           ELSE relayedMax
          /\ retry' = [retry EXCEPT ![t] = IF failed /\ there THEN c.id
                                           ELSE IF @ = c.id THEN None ELSE @]

\* the row after the status block that follows the loop over the update items
LinkAfterStatus(l, newEmpty, held, status_code) ==
    IF newEmpty /\ held /\ l.status # status_code
    THEN [l EXCEPT !.status = status_code,
                   !.is_active = IF status_code = StatusDone THEN FALSE ELSE @]
    ELSE l

\* the status block has a row to write
StatusDue ==
    cur.task # 0 /\ LinkAfterStatus(link[cur.task], cur.newEmpty, cur.link, cur.status) # link[cur.task]

\* check_task_updates: the loop is over: the status block runs once, with the
\* variables of the last visited item, and the job ends.  commitOk: the commit of the
\* block did not raise (it is rolled back otherwise)
PollFinish(commitOk) ==
    /\ ppc = "loop"
    /\ updates = <<>>
    /\ ~StatusDue => commitOk
    /\ link' = IF StatusDue /\ commitOk
               THEN [link EXCEPT ![cur.task] = LinkAfterStatus(@, cur.newEmpty, cur.link, cur.status)]
               ELSE link
    /\ ppc' = "idle"
    /\ cur' = NoCur
    /\ attempts' = <<>>
    /\ fetched' = <<>>
    /\ UNCHANGED <<extComments, extStatus, nextId, deletes, clientKnown, updates, retry, relayedMax, tasklist, dvars, rvars, tvars, hvars, cvars, kvars, xvars>>

\* the handler that created ticket t commits its row, once per ticket:
\* BitrixTaskLink(client_id=client.id, task_id=..., is_active=True, kind='question').
\* The handler runs after ClientAuthMiddleware committed the Client row of the user,
\* so the Client row exists for as long as the ticket does.  The table has no unique
\* constraint on task_id: after a row the job created this is a second row
LinkNewTicket(t) ==
    /\ link[t].awaited
    /\ link' = [link EXCEPT ![t] = IF @.exists THEN [@ EXCEPT !.dup = TRUE, !.awaited = FALSE]
                                   ELSE FreshLink]
    /\ UNCHANGED <<extComments, extStatus, nextId, deletes, clientKnown, ppc, updates, cur,
                   attempts, retry, relayedMax, tasklist, fetched, dvars, rvars, tvars, hvars, cvars, kvars, xvars>>

PollerNext ==
    \/ \E t \in Tickets, kind \in CommentKinds : AddComment(t, kind)
    \/ \E t \in Tickets, i \in 1..MaxComments : DeleteComment(t, i)
    \/ \E t \in Tickets : CloseTicket(t)
    \/ \E t \in Tickets : LinkNewTicket(t)
    \/ ClientRegisters
    \/ PollStart
    \/ \E requestOk \in BOOLEAN : PollFetch(requestOk)
    \/ \E selectOk \in BOOLEAN : PollTicket(selectOk)
    \/ \E sendOk, filesOk, dbOk \in BOOLEAN : PollDeliver(sendOk, filesOk, dbOk)
    \/ \E commitOk \in BOOLEAN : PollFinish(commitOk)

DebounceInit == DebounceVarsInit /\ RouterVarsInit /\ PollerVarsIdle /\ TurnVarsInit /\ HistoryVarsInit /\ CronVarsInit /\ CancelVarsInit /\ CacheVarsInit

RouterInit == DebounceVarsInit /\ RouterVarsInit /\ PollerVarsIdle /\ TurnVarsInit /\ HistoryVarsInit /\ CronVarsInit /\ CancelVarsInit /\ CacheVarsInit

PollerInit == DebounceVarsInit /\ RouterVarsInit /\ PollerVarsInit /\ TurnVarsInit /\ HistoryVarsInit /\ CronVarsInit /\ CancelVarsInit /\ CacheVarsInit

TurnInit == DebounceVarsInit /\ RouterVarsInit /\ PollerVarsIdle /\ TurnVarsInit /\ HistoryVarsInit /\ CronVarsInit /\ CancelVarsInit /\ CacheVarsInit

SpecDebounce == DebounceInit /\ [][DebounceNext]_vars

SpecRouter == RouterInit /\ [][RouterNext]_vars

SpecPoller == PollerInit /\ [][PollerNext]_vars

\* the cron trigger starts the job every minute and the job, once started, runs on:
\* the steps of check_task_updates are taken whenever they stay possible
PollerFairness ==
    /\ WF_vars(PollStart)
    /\ WF_vars(\E requestOk \in BOOLEAN : PollFetch(requestOk))
    /\ WF_vars(\E selectOk \in BOOLEAN : PollTicket(selectOk))
    /\ WF_vars(\E sendOk, filesOk, dbOk \in BOOLEAN : PollDeliver(sendOk, filesOk, dbOk))
    /\ WF_vars(\E commitOk \in BOOLEAN : PollFinish(commitOk))

SpecPollerFair == PollerInit /\ [][PollerNext]_vars /\ PollerFairness

\* the poller with every delivery recorded across the cycles
RelayNext ==
    \/ \E t \in Tickets, kind \in CommentKinds : AddComment(t, kind)
    \/ \E t \in Tickets, i \in 1..MaxComments : DeleteComment(t, i)
    \/ \E t \in Tickets : CloseTicket(t)
    \/ \E t \in Tickets : LinkNewTicket(t)
    \/ ClientRegisters
    \/ PollStart
    \/ \E requestOk \in BOOLEAN : PollFetch(requestOk)
    \/ \E selectOk \in BOOLEAN : PollTicket(selectOk)
    \/ \E sendOk, filesOk, dbOk \in BOOLEAN : PollDeliverRecorded(sendOk, filesOk, dbOk)
    \/ \E commitOk \in BOOLEAN : PollFinish(commitOk)

SpecRelay == PollerInit /\ [][RelayNext]_vars

SpecTurn == TurnInit /\ [][TurnNext]_vars

SpecCallbacks == TurnInit /\ [][CallbacksNext]_vars

HistoryInit == DebounceVarsInit /\ RouterVarsInit /\ PollerVarsIdle /\ TurnVarsInit /\ HistoryVarsInit /\ CronVarsInit /\ CancelVarsInit /\ CacheVarsInit

SpecHistory == HistoryInit /\ [][HistoryNext]_vars

CronInit == DebounceVarsInit /\ RouterVarsInit /\ PollerVarsIdle /\ TurnVarsInit /\ HistoryVarsInit /\ CronVarsInit /\ CancelVarsInit /\ CacheVarsInit

SpecCron == CronInit /\ [][CronNext]_vars

CacheInit == DebounceVarsInit /\ RouterVarsInit /\ PollerVarsIdle /\ TurnVarsInit /\ HistoryVarsInit /\ CronVarsInit /\ CancelVarsInit /\ CacheVarsInit

SpecCache == CacheInit /\ [][CacheNext]_vars

(***************************************************************************)
(* Properties of the debounce timers (SpecDebounce)                        *)
(***************************************************************************)
\* the texts of burst b of chat k, each text one line
BurstTexts(k, b) == [i \in 1..Len(bursts[k][b]) |-> <<bursts[k][b][i]>>]

\* the texts delivered to the callback for chat k, concatenated in firing order
RECURSIVE FiredTexts(_, _)
FiredTexts(k, fs) ==
    IF fs = <<>> THEN <<>>
    ELSE (IF Head(fs).key = k THEN Head(fs).text ELSE <<>>) \o FiredTexts(k, Tail(fs))

\* all texts notified for chat k, in arrival order
NotifiedTexts(k) == JoinLines(bursts[k])

ChatQuiet(k) == \A t \in TaskIds : taskKey[t] = k => ~TaskPending(t)

\* C1: for a run of notify calls of one key, each arriving before the previous
\* call's timer fired, the callback is invoked at most once, and with the texts
\* t1..tn of the whole run joined in arrival order (never with a part of them).
C1_OneCallbackWithJoinedTexts ==
    /\ \A i \in DOMAIN fired :
          fired[i].text = JoinLines(BurstTexts(fired[i].key, fired[i].burst))
    /\ \A i, j \in DOMAIN fired :
          (fired[i].key = fired[j].key /\ fired[i].burst = fired[j].burst) => i = j

\* C2: once no timer of the key is pending, every notified text has been
\* delivered in exactly one batch: the batches, in order, add up to the
\* notified texts, none missing and none repeated.
C2_EveryTextInOneBatch ==
    \A k \in ChatIds : ChatQuiet(k) => FiredTexts(k, fired) = NotifiedTexts(k)

\* the timers of key k that are scheduled, have not fired and are not cancelled
PendingTimers(k) == {t \in TaskIds : taskKey[t] = k /\ TaskPending(t)}

\* C27: at every reachable state each key has at most one pending timer
C27_AtMostOnePendingTimerPerKey ==
    \A k \in ChatIds : Cardinality(PendingTimers(k)) <= 1

\* the step is a schedule call: it creates the task nextTask'
ScheduleStep == nextTask' = nextTask + 1

\* C28: a task whose callback raised has ended: it stays ended and its callback is
\* never invoked again (no task fires twice); a schedule call for a key, also one
\* whose earlier callback raised, registers a new sleeping timer, and a timer fires
\* only from the state its sleep leaves it in
C28_RaisedCallbackIsDropped ==
    [][/\ \A t \in TaskIds : taskState[t] = "failed" => taskState'[t] = "failed"
       /\ \A i, j \in DOMAIN fired' : fired'[i].task = fired'[j].task => i = j
       /\ ScheduleStep => /\ taskState'[nextTask'] = "sleeping"
                          /\ tasks'[taskKey'[nextTask']] = nextTask'
       /\ \A t \in TaskIds :
             (taskState[t] = "sleeping" /\ taskState'[t] # "sleeping")
             => taskState'[t] \in {"expired", "cancelled"}]_vars

\* a callback raised, and a timer scheduled afterwards for the same key has fired
C28_Witness ==
    \E t, u \in TaskIds :
        /\ t < u /\ taskKey[t] = taskKey[u]
        /\ taskState[t] = "failed"
        /\ taskState[u] = "done"
        /\ \E i, j \in DOMAIN fired : i < j /\ fired[i].task = t /\ fired[j].task = u

\* C29: no step takes a task out of its callback except the callback's own return
\* or exception: a schedule call made while the callback of the key is executing
\* leaves it executing and registers a new sleeping timer
C29_ScheduleNeverCancelsRunningCallback ==
    [][/\ \A t \in TaskIds :
             taskState[t] = "running" => taskState'[t] \in {"running", "done", "failed"}
       /\ ScheduleStep =>
             /\ \A t \in TaskIds : taskState[t] = "running" => taskState'[t] = "running"
             /\ taskState'[nextTask'] = "sleeping"]_vars

\* a schedule call arrived while the callback of the same key was executing
C29_Witness ==
    \E t, u \in TaskIds :
        /\ t < u /\ taskKey[t] = taskKey[u]
        /\ taskState[t] = "running"
        /\ taskState[u] = "sleeping"
        /\ tasks[taskKey[u]] = u

(***************************************************************************)
(* Properties of the wait store and the text routing (SpecRouter)          *)
(***************************************************************************)
KeyIdle(k) == \A h \in Slots : hs[h].kind = "text" => hs[h].key # k

InRange(x, sq) == \E i \in DOMAIN sq : sq[i] = x

\* no wait took part in the turns of key k so far
NoWaitUsed(k) ==
    /\ popLog[k] = <<>>
    /\ \A i \in DOMAIN classifyLog[k] : ~InRange("CLARIFICATION:", classifyLog[k][i])

\* C3: two texts of one key arriving within the debounce period are classified
\* once, as one batch: the two texts joined by a newline in arrival order.
C3_TwoTextsClassifiedOnce ==
    \A k \in Keys :
        (Len(arrivals[k]) = 2 /\ KeyIdle(k) /\ NoWaitUsed(k))
            => classifyLog[k] = << JoinLines(<< <<arrivals[k][1]>>, <<arrivals[k][2]>> >>) >>

\* C4: set_pending_clarify while a wait is active leaves the stored id unchanged
\* and returns it (for an equal or a different new id), and the callback then
\* tells the user about the stored ticket; it stores the new id and returns
\* None only when no wait was active.
C4_TrySetKeepsActiveWait ==
    [][(lastClarify' # lastClarify \/ waitNo' # waitNo) =>
          LET k == lastClarify'.key
              t == lastClarify'.tid
              r == lastClarify'.existing
          IN IF pending_clarify[k] # None
             THEN /\ pending_clarify'[k] = pending_clarify[k]
                  /\ r = pending_clarify[k]
                  /\ ClarifyAnswer(r, t).alert # "listening"
                  /\ ClarifyAnswer(r, t).about = pending_clarify[k]
             ELSE /\ pending_clarify'[k] = t
                  /\ r = None
                  /\ ClarifyAnswer(r, t).alert = "listening"]_vars

\* a clarify press for ticket 2 while the wait for ticket 1 was active was
\* answered with the stored id 1, and the wait is still 1
C4_Witness ==
    /\ lastClarify.key \in Keys
    /\ lastClarify.existing = 1 /\ lastClarify.tid = 2
    /\ pending_clarify[lastClarify.key] = 1

\* C5: every successful set_pending_clarify is consumed by at most one pop,
\* whatever the interleaving of text and attachment handlers of the key, so
\* one wait yields at most one clarification comment.
C5_WaitPoppedAtMostOnce ==
    \A k \in Keys :
        /\ \A i, j \in DOMAIN popLog[k] : popLog[k][i].wno = popLog[k][j].wno => i = j
        /\ \A i, j \in DOMAIN commentLog[k] : commentLog[k][i].wno = commentLog[k][j].wno => i = j
        /\ \A i \in DOMAIN popLog[k] : popLog[k][i].wno \in 1..waitNo[k]

\* a text and an attachment handler of one key both reached their pop of the
\* same wait: one got the ticket, the other got None
C5_Witness ==
    \E k \in Keys, h1, h2 \in Slots :
        /\ waitNo[k] = 1
        /\ Len(popLog[k]) = 1
        /\ hs[h1].kind = "text" /\ hs[h1].key = k /\ hs[h1].pc = "comment"
        /\ hs[h2].kind = "attach" /\ hs[h2].key = k /\ hs[h2].pc = "bind"

\* C6: a key never has a ticket wait and a pre-ticket wait active together.
C6_AtMostOneWaitPerKey ==
    \A k \in Keys : ~(pending_clarify[k] # None /\ pending_pre[k] # NoQuestion)

\* C7: when the routing of a text finds a ticket wait active, it consumes the
\* wait and posts the text as a comment on that ticket without classifying,
\* also when a pre-ticket wait was stored for the conversation.
C7_TicketWaitWinsRouting ==
    [][\A h \in Slots :
          (hs[h].kind = "text" /\ hs[h].pc = "route" /\ hs'[h].pc # "route"
              /\ pending_clarify[hs[h].key] # None)
          => /\ hs'[h].pc = "comment"
             /\ hs'[h].tid = pending_clarify[hs[h].key]
             /\ pending_clarify'[hs[h].key] = None]_vars

(***************************************************************************)
(* Properties of the reconciliation poller (SpecPoller)                    *)
(***************************************************************************)
\* the attempt brought something of the comment to the chat: its text or its files
Delivered(a) == a.sent \/ a.files = "ok"

\* the ids of the comments of ticket t relayed in the current cycle, in order
RECURSIVE RelayedIds(_, _)
RelayedIds(t, as) ==
    IF as = <<>> THEN <<>>
    ELSE (IF Head(as).task = t /\ Delivered(Head(as)) THEN <<Head(as).id>> ELSE <<>>)
         \o RelayedIds(t, Tail(as))

\* the ids of the comments in cs that are strictly after the watermark w
RECURSIVE IdsAfter(_, _)
IdsAfter(cs, w) ==
    IF cs = <<>> THEN <<>>
    ELSE (IF w = None \/ Head(cs).id > w THEN <<Head(cs).id>> ELSE <<>>)
         \o IdsAfter(Tail(cs), w)

\* the delivery of the comment failed: the send of its text raised or a file was not sent
DeliveryFailed(a) == a.raised \/ a.files = "failed"

\* C8: a poll cycle never relays a comment that is at or before the watermark
\* stored for its ticket, and relays the comments of a ticket in rising order.
C8_NothingAtOrBeforeWatermark ==
    /\ \A i \in DOMAIN attempts :
          Delivered(attempts[i]) =>
              (attempts[i].last_known = None \/ attempts[i].id > attempts[i].last_known)
    /\ \A i, j \in DOMAIN attempts :
          (i < j /\ attempts[i].task = attempts[j].task
             /\ Delivered(attempts[i]) /\ Delivered(attempts[j]))
              => attempts[i].id < attempts[j].id

\* watermark 1 with fetched comments 1, 2: only 2 was relayed and the
\* watermark became 2
C8_Witness ==
    \E t \in Tickets, n \in DOMAIN fetched :
        /\ fetched[n].task_id = t
        /\ [i \in 1..Len(fetched[n].all_comments) |-> fetched[n].all_comments[i].id] = <<1, 2>>
        /\ cur.task = t /\ cur.last_known = 1
        /\ RelayedIds(t, attempts) = <<2>>
        /\ link[t].last_comment_id = 2

\* the user comments of ticket t in the list the running job fetched
FetchedComments(t) ==
    IF \E n \in DOMAIN fetched : fetched[n].task_id = t
    THEN (CHOOSE item \in {fetched[n] : n \in DOMAIN fetched} : item.task_id = t).all_comments
    ELSE <<>>

\* the status of ticket t in the list the running job fetched
FetchedStatus(t) ==
    (CHOOSE item \in {fetched[n] : n \in DOMAIN fetched} : item.task_id = t).status

\* C9: when the comments of a ticket have been processed in a cycle without a
\* delivery failure and without a database failure, exactly the fetched user comments strictly after the
\* stored watermark were relayed, in order, and the watermark is the last of them.
C9_AllAfterWatermarkRelayed ==
    \A t \in Tickets :
        (/\ ppc = "loop" /\ cur.task = t /\ link[t].exists
         /\ \A i \in DOMAIN attempts :
               attempts[i].task = t => (~DeliveryFailed(attempts[i]) /\ attempts[i].committed))
        => LET due == IdsAfter(FetchedComments(t), cur.last_known)
           IN /\ RelayedIds(t, attempts) = due
              /\ due # <<>> => link[t].last_comment_id = due[Len(due)]

\* C10: after a failed delivery of a comment (text or files) the watermark is
\* not that comment, no later comment of the ticket is attempted in the cycle,
\* and until the failed comment is attempted again no later one is.
C10_FailedCommentRetriedFirst ==
    /\ \A i \in DOMAIN attempts :
          DeliveryFailed(attempts[i]) =>
              /\ link[attempts[i].task].last_comment_id # attempts[i].id
              /\ \A j \in DOMAIN attempts : j > i => attempts[j].task # attempts[i].task
    /\ \A i \in DOMAIN attempts :
          retry[attempts[i].task] # None => attempts[i].id <= retry[attempts[i].task]

\* the job's last step: the loop over the update items is over
PollFinishStep == ppc = "loop" /\ updates = <<>> /\ ppc' = "idle"

\* the cycle visited ticket t and found no new comment for it
VisitedWithoutNew(t) ==
    /\ \A i \in DOMAIN attempts : attempts[i].task # t
    /\ \E i \in DOMAIN fetched :
          /\ fetched[i].task_id = t
          /\ NewComments(fetched[i].all_comments,
                         IF link[t].exists THEN link[t].last_comment_id ELSE None) = <<>>

\* C22: when a cycle ends and the commit of its status block did not raise, every
\* ticket the cycle visited without new comments whose stored status differs from the
\* external one has the external status stored, and its last_comment_id is what it was
C22_StatusUpdatedForEveryTicket ==
    [][(PollFinishStep /\ (StatusDue => link' # link)) =>
         \A t \in Tickets :
            (VisitedWithoutNew(t) /\ link[t].exists /\ link[t].status # FetchedStatus(t))
            => (/\ link'[t].status = FetchedStatus(t)
                /\ link'[t].last_comment_id = link[t].last_comment_id)]_vars

\* the step relays comment id of ticket t: its text or a file of it reaches the chat
RelayStep(t, id) ==
    /\ ppc = "send"
    /\ cur.task = t
    /\ Head(cur.queue).id = id
    /\ Len(attempts') = Len(attempts) + 1
    /\ Delivered(attempts'[Len(attempts')])
    /\ attempts'[Len(attempts')].id = id

\* C24: last_comment_id of a link changes only in a step that relays a comment, to
\* that comment, and never to a comment older than the stored one (comment ids
\* ascend in the order in which the comments were written)
C24_WatermarkOnlyMovesForward ==
    [][\A t \in Tickets :
          LET old == IF link[t].exists THEN link[t].last_comment_id ELSE None
              new == IF link'[t].exists THEN link'[t].last_comment_id ELSE None
          IN new # old => /\ RelayStep(t, new)
                          /\ (old = None \/ new > old)]_vars

\* C25: at most one execution of the job is in progress; a run time that comes due
\* while an execution is in progress starts none and is dropped, and the end of
\* an execution starts none either
C25_OneExecutionAtATime ==
    [][/\ Instances' <= 1
       /\ (cronTick' # cronTick /\ Instances >= 1)
          => (jobRuns' = jobRuns /\ cronTick' \in skippedTicks')
       /\ cronTick' = cronTick => Len(jobRuns') = Len(jobRuns)]_vars

\* a run time came due while an execution was in progress, and was dropped
C25_Witness ==
    \E i \in DOMAIN jobRuns :
        /\ jobRuns[i].state = "running"
        /\ \E n \in skippedTicks : n > jobRuns[i].tick

\* C30: a step that delivers a comment of a ticket delivers one that no earlier
\* step delivered and committed: a comment later than every comment of the ticket
\* delivered and committed so far (comment ids ascend in the order in which the comments
\* were written)
C30_DeliveredCommentNeverDeliveredAgain ==
    [][\A t \in Tickets :
          \A id \in 1..(nextId + 1) :
             RelayStep(t, id) => (relayedMax[t] = None \/ id > relayedMax[t])]_vars

\* C21: whenever the ticketing system shows the terminal status for a ticket whose
\* link row is active, the reconciliation polls eventually make the row inactive
C21_TerminalStatusDeactivatesLink ==
    \A t \in Tickets :
        (extStatus[t] = StatusDone /\ link[t].exists /\ link[t].is_active)
        ~> (link[t].exists /\ ~link[t].is_active)

(***************************************************************************)
(* Properties of the turns of the text and attachment handlers (SpecTurn)  *)
(***************************************************************************)
\* the text turn of a client in slot h went through the classifier and has returned
ClassifiedTurnDone(h) == turn[h].pc = "done" /\ turn[h].kind = "text"

\* C11: a non-staff text turn in which no adapter call raised sends at least one
\* message to the user before the handler returns, whatever category the classifier gave
C11_EveryCategoryAnswered ==
    \A h \in TurnSlots :
       (ClassifiedTurnDone(h) /\ ~turn[h].res.aborted) => turn[h].res.replies >= 1

\* C12: a turn classified mixed_question_and_task in which no ticket creation
\* failed and no adapter call raised has created a ticket when it returns
C12_MixedAlwaysCreatesTicket ==
    \A h \in TurnSlots :
       (ClassifiedTurnDone(h) /\ turn[h].cat = "mixed_question_and_task"
           /\ ~turn[h].res.aborted /\ turn[h].res.create # "fail")
       => turn[h].res.created >= 1

\* C13: no text turn is aborted by a failing adapter call: a turn never ends on an
\* exception raised out of an adapter
C13_AdapterFailureNeverAborts ==
    \A h \in TurnSlots : ClassifiedTurnDone(h) => ~turn[h].res.aborted

\* the dispatch step of the text turn in slot h: the category branch ran to the end
\* of the handler
DispatchStep(h) == turn[h].pc = "dispatch" /\ turn'[h].pc = "done"

\* C14: on the normal route, when the category is bitrix_task or general_question, the
\* playbook lookup gave nothing, the off-tariff check said no and the completeness
\* check returned a question, the turn creates no ticket, sends the question and
\* leaves a pre-ticket wait for the key that holds the original text
C14_ClarifyingQuestionDefersTicket ==
    [][\A h \in TurnSlots :
          (DispatchStep(h) /\ ~turn[h].viaPre
             /\ turn[h].cat \in {"bitrix_task", "general_question"}
             /\ turn'[h].res.kb = "none" /\ turn'[h].res.off = "no"
             /\ turn'[h].res.clar = "asked")
          => (/\ turn'[h].res.created = 0
              /\ turn'[h].res.create = "skipped"
              /\ turn'[h].res.replies = 1
              /\ pending_pre'[turn[h].key] = turn[h].text)]_vars

C14_Witness ==
    \E h \in TurnSlots :
       /\ turn[h].pc = "done" /\ turn[h].cat = "general_question" /\ ~turn[h].viaPre
       /\ turn[h].res.kb = "none" /\ turn[h].res.off = "no" /\ turn[h].res.clar = "asked"
       /\ turn[h].res.created = 0 /\ turn[h].res.replies = 1
       /\ pending_pre[turn[h].key] = turn[h].text

\* the first step of a client's text turn in slot h: the pop of the pre-ticket wait
PrePopStep(h) == turn[h].pc = "idle" /\ turn'[h].kind = "text"

\* C15: a client text that arrives while a pre-ticket wait is stored for its key pops
\* the wait, is classified as the stored question combined with the new text, and the
\* turn that follows never calls the completeness check and stores no new pre-ticket
\* wait, whatever the category
C15_PreTicketTurnSkipsClarification ==
    [][\A h \in TurnSlots :
          /\ (PrePopStep(h) /\ pending_pre[turn'[h].key] # NoQuestion)
             => (/\ turn'[h].pre = pending_pre[turn'[h].key]
                 /\ pending_pre'[turn'[h].key] = NoQuestion)
          /\ (turn[h].pc = "route" /\ turn'[h].pc # "route" /\ turn[h].pre # NoQuestion)
             => (/\ turn'[h].pc = "classify" /\ turn'[h].viaPre
                 /\ turn'[h].question = CombinedQuestion(turn[h].pre, turn[h].text))
          /\ (DispatchStep(h) /\ turn[h].pre # NoQuestion)
             => (/\ turn[h].viaPre
                 /\ turn'[h].res.clar = "skipped"
                 /\ ~turn'[h].res.setPre
                 /\ pending_pre' = pending_pre
                 /\ preAge' = preAge)]_vars

C15_Witness ==
    \E h \in TurnSlots :
       /\ turn[h].pc = "done" /\ turn[h].viaPre /\ turn[h].cat = "bitrix_task"
       /\ turn[h].question = CombinedQuestion(<<"a">>, <<"b">>)
       /\ turn[h].res.off = "no" /\ turn[h].res.clar = "skipped" /\ turn[h].res.create = "ok"
       /\ pending_pre[turn[h].key] = NoQuestion

\* C16: a pop of the pre-ticket wait made when the latest set for the key is at least
\* the TTL old, and no pop took the entry in between, returns None
C16_PopAfterTtlReturnsNone ==
    [][\A h \in TurnSlots :
          (PrePopStep(h) /\ preAge[turn'[h].key] >= TtlTicks) => turn'[h].pre = NoQuestion]_vars

C16_Witness ==
    \E h \in TurnSlots :
       /\ turn[h].kind = "text" /\ turn[h].pc = "route"
       /\ preAge[turn[h].key] = TtlTicks
       /\ turn[h].pre = NoQuestion
       /\ pending_pre[turn[h].key] = NoQuestion

\* C17: when a client's text turn returns without an exception, the inbound text is in
\* the history once and every message sent to the user is in the history once
C17_EveryTextInHistoryOnce ==
    \A h \in TurnSlots :
       (turn[h].pc = "done" /\ turn[h].kind \in {"text", "comment"} /\ ~turn[h].res.aborted)
       => (turn[h].userHist = 1 /\ turn[h].res.botHist = turn[h].res.replies)

\* C19: in the non_standard_faq branch, when the knowledge base has an exact match for
\* the question, the turn creates a ticket only if the branch's playbook says
\* create_task
C19_ExactMatchTicketOnlyByPlaybook ==
    \A h \in TurnSlots :
       (ClassifiedTurnDone(h) /\ turn[h].cat = "non_standard_faq"
           /\ turn[h].res.exact1 = "yes" /\ turn[h].res.created >= 1)
       => turn[h].res.kb1 = "reply_task"

\* C20: when a text or attachment turn returns, every ticket it created has its
\* BitrixTaskLink row with is_active = TRUE
C20_EveryCreatedTicketLinked ==
    \A h \in TurnSlots :
       (turn[h].pc = "done" /\ turn[h].kind \in {"text", "attach"})
       => turn[h].res.linked = turn[h].res.created

(***************************************************************************)
(* Properties of the conversation history (SpecHistory)                    *)
(***************************************************************************)
\* the rows of the chat were all stored at different times
DistinctTimes(chat_id) ==
    \A i, j \in ChatRows(rows, chat_id) : i # j => rows[i].created_at # rows[j].created_at

\* C18: the history read used as classification context returns the messages appended
\* to the chat (here: at pairwise different times) in the order of the appends, none
\* missing and none reordered
C18_ReadReturnsAppendedInOrder ==
    (recent.chat # 0 /\ DistinctTimes(recent.chat)) => recent.out = recent.appended

\* C26: a turn whose classification call failed, or whose classifier answered
\* something that is no category, is dispatched as bitrix_task: it runs the ticket
\* flow itself, with the flow's own playbook lookup and no lookup of another branch
C26_BadClassificationTakesTicketBranch ==
    \A h \in TurnSlots :
       (turn[h].pc \in {"dispatch", "done"} /\ turn[h].classified \in {"failed", "malformed"})
       => /\ turn[h].cat = "bitrix_task"
          /\ turn[h].pc = "done"
             => /\ \E in \in FlowInputs, kbs \in KbStates :
                       turn[h].res = WithExact(Flow(in, turn[h].viaPre), kbs)
                /\ turn[h].res.kb # "skipped"
                /\ turn[h].res.kb1 = "skipped" /\ turn[h].res.answer = "skipped"

\* a turn with an unrecognised classifier answer went through the ticket flow and
\* created a ticket
C26_Witness ==
    \E h \in TurnSlots :
       /\ turn[h].pc = "done"
       /\ turn[h].classified = "malformed"
       /\ ~turn[h].viaPre
       /\ turn[h].res.created = 1

\* C31: the handling of one text or one attachment calls create_task at most once
C31_AtMostOneCreateCallPerMessage ==
    \A h \in TurnSlots : turn[h].pc = "done" => turn[h].res.createCalls <= 1

\* the step handles a cancel-clarify press for key k and task t
CancelStep(k, t) ==
    /\ Len(cancels') = Len(cancels) + 1
    /\ cancels'[Len(cancels')].key = k
    /\ cancels'[Len(cancels')].tid = t

\* C32: a cancel-clarify press for the task whose ticket wait is active removes the
\* wait of the key; a press for another task, or without a wait, leaves the waits
\* as they are
C32_CancelClarifyRemovesTheWait ==
    [][\A k \in Keys, t \in TicketIds :
          CancelStep(k, t) =>
             IF pending_clarify[k] = t
             THEN pending_clarify' = [pending_clarify EXCEPT ![k] = None]
             ELSE pending_clarify' = pending_clarify]_vars

\* C33: a turn classified chitchat, entered with or without a pre-ticket wait, sends
\* one reply and makes no ticket creation call
C33_ChitchatNeverCreatesTicket ==
    \A h \in TurnSlots :
       (turn[h].pc = "done" /\ turn[h].kind = "text" /\ turn[h].cat = "chitchat")
       => (/\ turn[h].res.replies = 1
           /\ turn[h].res.createCalls = 0
           /\ turn[h].res.created = 0)

\* the ticket flow of the finished turn in slot h ran with skip_clarification = True:
\* every flow call of a pre-ticket turn, and the call made for a branch playbook that
\* asks for a ticket
SkipClarificationTurn(h) ==
    /\ turn[h].pc = "done" /\ turn[h].kind = "text"
    /\ turn[h].res.kb # "skipped"
    /\ (turn[h].viaPre \/ turn[h].res.kb1 = "reply_task")

\* C34: a ticket flow run with skip_clarification = True does not take the
\* off-tariff gate: it sends no manager hand-off reply and creates no sales ticket
C34_SkipClarificationSkipsOffTariff ==
    \A h \in TurnSlots : SkipClarificationTurn(h) => turn[h].res.off # "yes"

(***************************************************************************)
(* Properties of the pre-ticket wait store over several keys (SpecCache)   *)
(***************************************************************************)
\* the step is a set or a pop of key k
CacheOpStep(k) == cacheOp'.no = cacheOp.no + 1 /\ cacheOp'.key = k

\* C35: a set or pop of one key leaves the unexpired wait of every other key as it was
C35_OtherKeysWaitUntouched ==
    [][\A a, b \in CacheKeys :
          (a # b /\ CacheOpStep(a) /\ ttl_get(cache, b) # NoQuestion)
          => ttl_get(cache', b) = ttl_get(cache, b)]_vars

\* C36: a pop of a key returns the question set last for the key and neither popped
\* nor expired since (None when there is none), and the key then holds no question
C36_PopReturnsLatestQuestionOnce ==
    [][\A k \in CacheKeys :
          (CacheOpStep(k) /\ cacheOp'.op = "pop")
          => (cacheOp'.ret = ideal[k].value /\ ttl_get(cache', k) = NoQuestion)]_vars

\* the loop over the update items of the running cycle is over
CycleOver == ppc = "loop" /\ updates = <<>>

\* the last comment of ticket t relayed in the running cycle, None when there is none
LastRelayed(t) ==
    LET ids == RelayedIds(t, attempts)
    IN IF ids = <<>> THEN None ELSE ids[Len(ids)]

\* the attempt failed: the send raised, a file was not sent or the database raised
AttemptFailed(a) == DeliveryFailed(a) \/ ~a.committed

\* C37: a send that raised for a comment of one ticket ends the cycle's work on that
\* ticket only: when the loop is over, every other ticket of the fetched updates
\* that had new comments was worked on, and each ticket whose attempts all went
\* through has the last comment relayed for it in the cycle as its watermark
C37_FailureStopsOnlyItsTicket ==
    (CycleOver /\ \E i \in DOMAIN attempts : attempts[i].raised)
    => /\ \A i, j \in DOMAIN attempts :
             (attempts[i].raised /\ j > i) => attempts[j].task # attempts[i].task
       /\ \A n \in DOMAIN fetched :
             LET u == fetched[n].task_id
             IN /\ \/ \E j \in DOMAIN attempts : attempts[j].task = u
                   \/ NewComments(fetched[n].all_comments,
                                  IF link[u].exists THEN link[u].last_comment_id ELSE None) = <<>>
                /\ (/\ LastRelayed(u) # None
                    /\ \A j \in DOMAIN attempts :
                          attempts[j].task = u => ~AttemptFailed(attempts[j]))
                      => (link[u].exists /\ link[u].last_comment_id = LastRelayed(u))

\* the handler of a client's attachment in slot h, for key k, ends: after the pop
\* and the binding of the files, or on a raise of bot.get_file
AttachStep(h, k) ==
    /\ turn[h].pc = "files" /\ turn'[h].pc = "done"
    /\ turn'[h].kind = "attach"
    /\ turn'[h].key = k

\* C38: every attachment of a client whose handler ends while a ticket wait is stored
\* for its key is posted as a comment on the waited ticket, removes the wait and
\* calls create_task not once, and no such attachment changes the pre-ticket wait
C38_AttachmentGoesToWaitedTicket ==
    [][\A h \in TurnSlots, k \in Keys :
          AttachStep(h, k) =>
             /\ pending_pre' = pending_pre
             /\ preAge' = preAge
             /\ pending_clarify[k] # None
                   => /\ turn'[h].waited = pending_clarify[k]
                      /\ turn'[h].res.files = "waited"
                      /\ turn'[h].res.posted
                      /\ pending_clarify'[k] = None
                      /\ turn'[h].res.createCalls = 0
                      /\ turn'[h].res.created = 0]_vars

\* the handler of a text of a staff username for key k starts in slot h
StaffTextStep(h, k) ==
    turn[h].pc = "idle" /\ turn'[h].kind = "staff" /\ turn'[h].key = k

\* C39: the handler of a text of a staff username inserts the text into the history
\* once and returns: both waits of the key stay as they are, the classifier and the
\* other adapters are not called, nothing is sent and no ticket is created
C39_StaffTextOnlySaved ==
    [][\A h \in TurnSlots :
          /\ \A k \in Keys :
                StaffTextStep(h, k)
                => /\ turn'[h].pc = "done"
                   /\ turn'[h].userHist = 1
                   /\ turn'[h].classified = "skipped"
                   /\ turn'[h].res = ZeroRes
                   /\ pending_clarify' = pending_clarify
                   /\ pending_pre' = pending_pre
                   /\ preAge' = preAge
          /\ (turn[h].kind = "staff" /\ turn'[h].kind = "staff")
                => /\ turn'[h].userHist = turn[h].userHist
                   /\ turn'[h].classified = "skipped"
                   /\ turn'[h].res = ZeroRes]_vars

\* a staff text was handled while a ticket wait and a pre-ticket wait of its key
\* were stored, and both are still stored
C39_Witness ==
    \E h \in TurnSlots :
       /\ turn[h].kind = "staff" /\ turn[h].pc = "done"
       /\ turn[h].userHist = 1
       /\ pending_clarify[turn[h].key] # None
       /\ pending_pre[turn[h].key] # NoQuestion

====
